---- MODULE Spec2Model ----
(***************************************************************************)
(* Model of the pokemon-showdown login server's authentication engine:     *)
(* the users / sessions / loginthrottle tables and the request handlers of *)
(* src/src/user.ts (class Session) driven by src/src/actions.ts.           *)
(*                                                                         *)
(* Every request is a process whose steps are the handler's accesses to    *)
(* the store (each `await` on a table); the pure code between two          *)
(* accesses belongs to the step of the access that follows it.             *)
(*                                                                         *)
(* Strings that the code takes apart (display names, cookies, challenges,  *)
(* hashes, e-mail addresses) are sequences of tokens; a token is one       *)
(* character, or an opaque run of characters none of which the code        *)
(* inspects (a random secret, a password).                                 *)
(***************************************************************************)
EXTENDS Integers, Sequences, FiniteSets, TLC

\* ------------------------------------------------------------------ bounds
\* number of request contexts that can be in flight at the same time
NumReq == 2
\* number of requests started in one behaviour
MaxRequests == 2
\* number of clock advances in one behaviour
MaxTicks == 1
\* number of OAuth requests in one behaviour
MaxOAuthRequests == 2
\* number of calls of getIp, and of verifyCrossDomainRequest, in one request
MaxHttpCalls == 2

\* --------------------------------------------------------------- constants
SID_DURATION == 2 * 7 * 24 * 60 * 60
LOGINTIME_INTERVAL == 24 * 60 * 60
THROTTLE_WINDOW == 24 * 60 * 60
THROTTLE_LIMIT == 500
AUTOCONFIRM_AGE == 7 * 24 * 60 * 60
BANSTATE_GONE == 100
MAX_USERID_LEN == 18

\* ------------------------------------------------------------ string tools
RECURSIVE SplitAcc(_, _, _, _)
SplitAcc(s, delim, i, cur) ==
    IF i > Len(s) THEN <<cur>>
    ELSE IF s[i] = delim THEN <<cur>> \o SplitAcc(s, delim, i + 1, <<>>)
    ELSE SplitAcc(s, delim, i + 1, Append(cur, s[i]))

\* String.prototype.split(delim) for a one-token delimiter
Split(s, delim) == SplitAcc(s, delim, 1, <<>>)

\* Array.prototype.filter(Boolean) on an array of strings: drops ''
FilterBoolean(parts) == SelectSeq(parts, LAMBDA p : p # <<>>)

RECURSIVE Join(_, _)
Join(parts, delim) ==
    IF parts = <<>> THEN <<>>
    ELSE IF Len(parts) = 1 THEN parts[1]
    ELSE parts[1] \o <<delim>> \o Join(Tail(parts), delim)

\* String.prototype.trim, for blanks
RECURSIVE Trim(_)
Trim(str) ==
    IF str # <<>> /\ Head(str) = " " THEN Trim(Tail(str))
    ELSE IF str # <<>> /\ str[Len(str)] = " " THEN Trim(SubSeq(str, 1, Len(str) - 1))
    ELSE str

Includes(str, c) == \E i \in 1..Len(str) : str[i] = c

StartsWith(s, p) == Len(s) >= Len(p) /\ SubSeq(s, 1, Len(p)) = p

Digits == <<"0", "1", "2", "3", "4", "5", "6", "7", "8", "9">>
DigitSet == {Digits[i] : i \in 1..10}
DigitVal(c) == (CHOOSE i \in 1..10 : Digits[i] = c) - 1

RECURSIVE NumToStr(_)
NumToStr(n) == IF n < 10 THEN <<Digits[n + 1]>>
               ELSE NumToStr(n \div 10) \o <<Digits[(n % 10) + 1]>>

RECURSIVE DigitsVal(_, _, _)
DigitsVal(s, i, acc) ==
    IF i > Len(s) \/ s[i] \notin DigitSet THEN acc
    ELSE DigitsVal(s, i + 1, acc * 10 + DigitVal(s[i]))

\* parseInt: the value of the leading run of digits, NaN when there is none
ParseInt(s) ==
    LET t == IF Len(s) > 0 /\ s[1] = " " THEN Tail(s) ELSE s
    IN  IF Len(t) > 0 /\ t[1] \in DigitSet
        THEN [nan |-> FALSE, val |-> DigitsVal(t, 1, 0)]
        ELSE [nan |-> TRUE, val |-> 0]

\* a number used as a condition: NaN and 0 are falsy
Truthy(n) == ~n.nan /\ n.val # 0

LowerLetters == <<"a", "b", "c", "d", "e", "f", "g", "h", "i", "j", "k", "l", "m",
                  "n", "o", "p", "q", "r", "s", "t", "u", "v", "w", "x", "y", "z">>
UpperLetters == <<"A", "B", "C", "D", "E", "F", "G", "H", "I", "J", "K", "L", "M", "N", "O", "P", "Q", "R", "S", "T", "U", "V", "W", "X", "Y", "Z">>
Letters == {LowerLetters[i] : i \in 1..26}

\* String.prototype.toLowerCase, one character
LowerCase(c) ==
    IF \E i \in 1..26 : UpperLetters[i] = c
    THEN LowerLetters[CHOOSE i \in 1..26 : UpperLetters[i] = c]
    ELSE c

\* the characters /[^a-z0-9]+/ leaves
IdChars == Letters \cup DigitSet

RECURSIVE toIDAcc(_, _)
toIDAcc(s, i) ==
    IF i > Len(s) THEN <<>>
    ELSE LET c == LowerCase(s[i])
         IN  (IF c \in IdChars THEN <<c>> ELSE <<>>) \o toIDAcc(s, i + 1)

\* toID: lower-case, then drop everything that is not a-z0-9
toID(text) == toIDAcc(text, 1)

HasLetter(userid) == \E i \in 1..Len(userid) : userid[i] \in Letters

\* ------------------------------------------------------------------ hashes
\* a bcrypt hash string: <<scheme prefix (3 characters), "bcrypt", digested secret>>
bcryptHash(secret) == <<"$2b", "bcrypt", secret>>

\* bcrypt.compare: only hashes of the scheme the library knows can match
bcryptCompare(secret, hash) ==
    Len(hash) = 3 /\ hash[1] = "$2b" /\ hash[2] = "bcrypt" /\ hash[3] = secret

sanitizeHash(pass) ==
    IF ~StartsWith(pass, <<"$2b">>) THEN <<"$2b">> \o Tail(pass) ELSE pass

EndsWithAt(email) == Len(email) > 0 /\ email[Len(email)] = "@"

\* ------------------------------------------------------------------ inputs
NameAl == <<"A", "l">>
NameAlDot == <<"a", ".", "l">>
NameBo == <<"B", "o">>
GuestName == <<"G", "u", "e", "s", "t">>
al == <<"a", "l">>
bo == <<"b", "o">>

\* what a client can send as name / userid
Names == {NameAl, NameBo}
Passwords == {<<"pw1">>, <<"pw2">>}
IPs == {"ip1", "ip2"}

\* the secrets makeSid produces, in the order it produces them
SidToks == <<"s1", "s2", "s3", "s4", "s5", "s6", "s7", "s8">>

\* a well-formed challenge "<keyid>|<challenge>" for the active key
Challenges == {<<"4", "|", "c">>}

Reqs == 1..NumReq

\* ------------------------------------------------------------------- state
VARIABLES
    users,          \* table users: userid -> row
    sessions,       \* table sessions: session -> row
    nextSession,    \* AUTO_INCREMENT of sessions.session
    loginthrottle,  \* table loginthrottle: ip -> row
    now,            \* utils.time()
    cfg,            \* the loaded Config
    req,            \* the requests in flight: ActionContext + Session + User
    nextSid,        \* number of secrets makeSid has produced
    started,        \* number of requests started
    ticks,          \* number of clock advances
    http,           \* one ActionContext's view of its HTTP request and response
    oauthTokens,    \* table oauth_tokens: id -> row
    tokenLog       \* number of token ids crypto.randomBytes has produced

vars == <<http, oauthTokens, tokenLog,
          users, sessions, nextSession, loginthrottle, now, cfg, req,
          nextSid, started, ticks>>

\* the HTTP side of a context: the peer address of the socket, the
\* X-Forwarded-For and Origin request headers (<<>>: absent), this.prefix
\* (<<>>: null), this._ip, the Access-Control response headers (<<>>: not
\* set); history: what getIp and verifyCrossDomainRequest returned, the
\* number of allowCORS calls, whether setPrefix ran before the first
\* verifyCrossDomainRequest call, and at all
NoHttp == [socket |-> <<>>, xff |-> <<>>, origin |-> <<>>, prefix |-> <<>>, ip |-> <<>>,
           allowOrigin |-> <<>>, allowCredentials |-> <<>>,
           ipReturned |-> <<>>, prefixReturned |-> <<>>, allowCORSCalls |-> 0,
           presetAt |-> -1, preset |-> FALSE]

\* class User
Guest == [name |-> GuestName, id |-> toID(GuestName), loggedIn |-> <<>>]
NewUser(name) == IF name # <<>> THEN [name |-> name, id |-> toID(name), loggedIn |-> <<>>]
                 ELSE Guest
UserLogin(name) == [name |-> name, id |-> toID(name), loggedIn |-> toID(name)]

\* what the request returns: an ActionError, a handler result, or the string
\* getAssertion produced (a ';' message, or signed data)
MkResult(kind, text) ==
    [kind |-> kind, text |-> text, userid |-> <<>>, usertype |-> "",
     challenge |-> <<>>, time |-> 0, registered |-> FALSE]
NoResult == MkResult("none", "")
NoHeader == [set |-> FALSE, value |-> <<>>, maxAge |-> 0]

IdleReq == [
    pc |-> "idle", act |-> "", name |-> <<>>, pass |-> <<>>, newpass |-> <<>>,
    ip |-> "", challenge |-> <<>>, keyid |-> -1,
    user |-> Guest, sidhash |-> <<>>, session |-> 0,
    ctime |-> 0, curTime |-> 0, stack |-> <<>>, callName |-> <<>>, callPass |-> <<>>,
    throttleTable |-> <<>>, userData |-> <<>>, userType |-> "",
    result |-> NoResult, setCookie |-> NoHeader,
    \* history: how the request proved who it is, and the cookie it came with
    auth |-> {}, cookieSid |-> <<>>, cookieSession |-> 0, inserted |-> {},
    before |-> {},
    \* history: the session checkLoggedIn bound the request to (0: none)
    bound |-> 0,
    \* history: the requests that were being handled when this one arrived
    overlap |-> {},
    \* history of the getAssertion call: the store accesses it has made, and
    \* whether it got as far as the challenge (it had the data to sign)
    gaStore |-> 0, gaData |-> FALSE,
    \* history of the last passwordVerify call: the persisted count it read
    \* (-1: no row), whether it loaded the account, and what it returned
    \* and the window start it read, with the time of the read
    pvCount |-> -1, pvLoaded |-> FALSE, pvResult |-> "", pvTime |-> -1, pvAt |-> -1,
    \* the OAuth parameters client_id and token; history: the token a previous
    \* authorize of the same owner and client returned in this context, the
    \* token this request inserted, and what the presented token was on arrival
    client |-> "", token |-> "", prevAuth |-> "", minted |-> "", tokenWas |-> <<>>,
    \* the uri parameter of oauth/api/revoke, and the row refreshtoken read
    uri |-> "", tokenEntry |-> <<>>]

\* table rows
UserRow(hash, email, banstate, registertime, ip) ==
    [passwordhash |-> hash, email |-> email, banstate |-> banstate,
     registertime |-> registertime, logintime |-> 0, ip |-> ip]

Get(table, key) == IF key \in DOMAIN table THEN <<table[key]>> ELSE <<>>
Put(table, key, row) == [k \in DOMAIN table \cup {key} |-> IF k = key THEN row ELSE table[k]]
\* DELETE of the rows a WHERE clause selects (keys: the primary keys it matches)
DeleteWhere_none(table, keys) == table
DeleteWhere(table, keys) == [k \in DOMAIN table \ keys |-> table[k]]

\* ------------------------------------------------------------------- Init
Now0 == AUTOCONFIRM_AGE + 2

\* the key id of Config.challengekeyid, and the deployment most of the model
\* starts in
ConfigDefault == [sysops |-> {}, autolockip |-> {"ip2"}, getUserType |-> "",
                  challengekeyid |-> 4, compromisedkeys |-> {},
                  cors |-> <<>>, trustedproxies |-> {}, privateRelayIPs |-> {}]
LegacyHash(secret) == <<"$2y", "bcrypt", secret>>

\* the store and the contexts when the clock shows t; the deployments differ
\* in sysops and the (optional) getUserType hook's answer, the account in its
\* standing
InitAt(t) ==
    /\ cfg \in {ConfigDefault,
                [ConfigDefault EXCEPT !.sysops = {al}],
                [ConfigDefault EXCEPT !.getUserType = "7"]}
    /\ \E b \in {0, BANSTATE_GONE} :
          /\ cfg # ConfigDefault => b = BANSTATE_GONE
          /\ users = Put(<<>>, al,
              [UserRow(LegacyHash(<<"pw1">>), <<>>, b, 1, "ip1")
                  EXCEPT !.logintime = t - LOGINTIME_INTERVAL])
    \* one session of al, created exactly 14 days ago
    /\ sessions = Put(<<>>, 1, [userid |-> al, sid |-> bcryptHash(<<SidToks[1]>>),
                                timeout |-> Now0])
    /\ nextSession = 2
    \* ip1 has used up its failures, in a window that ends this second
    \* with the last failure count before the lockout, or the first that locks out
    /\ \E c \in {THROTTLE_LIMIT, THROTTLE_LIMIT + 1} :
          /\ (cfg # ConfigDefault \/ users[al].banstate # 0) => c = THROTTLE_LIMIT
          /\ loginthrottle = Put(<<>>, "ip1",
                [count |-> c, time |-> t - THROTTLE_WINDOW, lastuserid |-> bo])
    /\ now = t
    /\ req = [r \in Reqs |-> IdleReq]
    /\ nextSid = 1
    /\ started = 0
    /\ ticks = 0
    /\ http = NoHttp
    /\ oauthTokens = <<>>
    /\ tokenLog = <<>>

Init == InitAt(Now0)

\* ------------------------------------------------------------- the clock
Tick ==
    /\ ticks < MaxTicks
    /\ ticks' = ticks + 1
    /\ now' = now + 1
    /\ UNCHANGED <<http, oauthTokens, tokenLog, users, sessions, nextSession, loginthrottle, cfg, req,
                   nextSid, started>>

\* ---------------------------------------------------------------- cookies
\* encodeURIComponent escapes every character but letters, digits and
\* - _ . ! ~ * ' ( ); the escapes of the other characters strings hold here
UriEscapes == [c \in {",", " ", "%", ";", "=", "|"} |->
    CASE c = "," -> <<"%", "2", "C">>
      [] c = " " -> <<"%", "2", "0">>
      [] c = "%" -> <<"%", "2", "5">>
      [] c = ";" -> <<"%", "3", "B">>
      [] c = "=" -> <<"%", "3", "D">>
      [] c = "|" -> <<"%", "7", "C">>]

RECURSIVE encodeURIComponent(_)
encodeURIComponent(str) ==
    IF str = <<>> THEN <<>>
    ELSE (IF Head(str) \in DOMAIN UriEscapes THEN UriEscapes[Head(str)] ELSE <<Head(str)>>)
         \o encodeURIComponent(Tail(str))

\* decodeURIComponent: text is the decoded string; threw is the URIError for a
\* '%' that no escape follows
RECURSIVE decodeURIComponent(_)
decodeURIComponent(str) ==
    IF str = <<>> THEN [threw |-> FALSE, text |-> <<>>]
    ELSE IF Head(str) # "%"
    THEN LET rest == decodeURIComponent(Tail(str))
         IN  [threw |-> rest.threw, text |-> <<Head(str)>> \o rest.text]
    ELSE IF Len(str) >= 3 /\ \E c \in DOMAIN UriEscapes : UriEscapes[c] = SubSeq(str, 1, 3)
    THEN LET rest == decodeURIComponent(SubSeq(str, 4, Len(str)))
         IN  [threw |-> rest.threw,
              text |-> <<CHOOSE c \in DOMAIN UriEscapes : UriEscapes[c] = SubSeq(str, 1, 3)>>
                       \o rest.text]
    ELSE [threw |-> TRUE, text |-> <<>>]

\* the loop of Session.parseCookie from part number i on: the Map as a
\* function from names to values (a later part overwrites an earlier one of
\* the same name; a part without '=' has the value 'undefined')
RECURSIVE parseCookieParts(_, _, _)
parseCookieParts(parts, i, list) ==
    IF i > Len(parts) THEN [threw |-> FALSE, list |-> list]
    ELSE LET kv == Split(parts[i], "=")
             curName == Trim(kv[1])
             val == IF Len(kv) >= 2 THEN decodeURIComponent(Trim(kv[2]))
                    ELSE [threw |-> FALSE,
                          text |-> <<"u", "n", "d", "e", "f", "i", "n", "e", "d">>]
         IN  IF val.threw THEN [threw |-> TRUE, list |-> list]
             ELSE parseCookieParts(parts, i + 1, Put(list, curName, val.text))

\* Session.parseCookie
parseCookie(cookieString) ==
    IF cookieString = <<>> THEN [threw |-> FALSE, list |-> <<>>]
    ELSE parseCookieParts(Split(cookieString, ";"), 1, <<>>)

\* Session.deleteCookie: the Set-Cookie header, and session = 0 when there is a secret
deleteCookie(rq) ==
    IF rq.sidhash # <<>>
    THEN [rq EXCEPT !.session = 0,
                    !.setCookie = [set |-> TRUE,
                                   value |-> encodeURIComponent(<<",", ",">> \o rq.sidhash),
                                   maxAge |-> 0]]
    ELSE [rq EXCEPT !.setCookie = [set |-> TRUE, value |-> <<>>, maxAge |-> 0]]

\* Session.updateCookie
updateCookie(rq) ==
    IF toID(rq.user.name) = toID(GuestName) THEN rq
    ELSE IF rq.sidhash = <<>> THEN deleteCookie(rq)
    ELSE [rq EXCEPT !.setCookie =
            [set |-> TRUE,
             value |-> encodeURIComponent(
                           Join(<<rq.user.name, NumToStr(rq.session), rq.sidhash>>, ",")),
             maxAge |-> 31363200]]

\* the sid cookies a client can send: none; the cookie a logout leaves
\* behind; for every session there is, its secret under any name, and a wrong
\* secret; for a session that is gone or was never there, some secret
CookieNames == {NameAl, NameAlDot, NameBo}
\* sessions whose secret no client has yet: the request that created them has
\* not answered (the secret leaves the server in its Set-Cookie header)
Undelivered ==
    UNION {req[q].inserted : q \in {x \in Reqs : req[x].pc \notin {"idle", "done"}}}
Cookie(name, session, sid) == Join(<<name, NumToStr(session), sid>>, ",")
Cookies ==
    {<<>>, <<",", ",", SidToks[1]>>}
    \cup {Cookie(n, k, sessions[k].sid[3]) :
             n \in CookieNames, k \in DOMAIN sessions \ Undelivered}
    \cup {Cookie(NameAl, k, <<"zz">>) : k \in DOMAIN sessions}
    \cup {Cookie(NameAl, k, <<SidToks[1]>>) : k \in (1..nextSession) \ DOMAIN sessions}

\* ------------------------------------------------------ Session.getUser
Throw(rq, msg) == [rq EXCEPT !.pc = "done", !.result = MkResult("actionerror", msg)]

\* Session.checkLoggedIn up to and including its read of the sessions table.
\* The result is the request with sidhash / session / user set, and pc
\* "cli_expired" when the expired branch (which writes) is still to run.
ExpiredAt_reversed(timeout, ctime) == ctime < timeout
ExpiredAt(timeout, ctime) == timeout < ctime

\* the cookie's display name must be the session owner's
OwnerMatches_any(userid, cookieName) == TRUE
OwnerMatches(userid, cookieName) == userid = toID(cookieName)

checkLoggedIn(rq, scookie) ==
    LET scsplit == FilterBoolean(Split(scookie, ","))
        ok3 == Len(scsplit) = 3
        cookieName == IF ok3 THEN scsplit[1] ELSE <<>>
        session == IF ok3 THEN ParseInt(scsplit[2]) ELSE [nan |-> FALSE, val |-> 0]
        sid == IF ok3 THEN scsplit[3] ELSE <<>>
        r1 == [rq EXCEPT !.sidhash = IF ok3 THEN sid ELSE rq.sidhash,
                         !.cookieSid = sid, !.cookieSession = session.val]
        res == Get(sessions, session.val)
    IN  IF scookie = <<>> THEN rq
        ELSE IF ~Truthy(session) THEN r1
        ELSE IF res = <<>> \/ ~bcryptCompare(sid, res[1].sid) THEN deleteCookie(r1)
        ELSE IF ~OwnerMatches(res[1].userid, cookieName) THEN r1
        ELSE IF ExpiredAt(res[1].timeout, r1.ctime)
             THEN [r1 EXCEPT !.pc = "cli_expired"]
        ELSE [r1 EXCEPT !.user = UserLogin(cookieName), !.sidhash = sid,
                        !.session = session.val,
                        !.auth = {res[1].userid}, !.bound = session.val]

\* Session.getUser: the user of the cookie's session, or a user who is not
\* logged in (clients send no showdown_username cookie)
getUser(rq, scookie) ==
    LET c == checkLoggedIn(rq, scookie)
    IN  IF c.user.loggedIn = <<>> THEN [c EXCEPT !.user = NewUser(<<>>)] ELSE c

\* a call of Session.login(name, pass): curTime is read on entry
CallLogin(rq, name, pass, caller) ==
    [rq EXCEPT !.pc = IF rq.session # 0 THEN "login_logout" ELSE "login_get",
               !.stack = <<caller>> \o rq.stack,
               !.callName = name, !.callPass = pass, !.curTime = now]

\* a call of Session.passwordVerify(name, pass)
CallPasswordVerify(rq, name, pass, caller) ==
    [rq EXCEPT !.pc = "pv_throttle", !.stack = <<caller>> \o rq.stack,
               !.callName = name, !.callPass = pass,
               !.pvCount = -1, !.pvLoaded = FALSE, !.pvResult = "",
               !.pvTime = -1, !.pvAt = -1]

\* the first store access of each handler of actions.ts
Dispatch(rq) ==
    CASE rq.act = "login" -> CallLogin(rq, rq.name, rq.pass, "actions.login")
      [] rq.act = "register" -> [rq EXCEPT !.pc = "reg_get"]
      [] rq.act = "getassertion" -> [rq EXCEPT !.pc = "ga_userdata"]
      [] rq.act = "changepassword" ->
            IF rq.user.loggedIn = <<>>
            THEN Throw(rq, "Your session has expired. Please log in again.")
            ELSE CallPasswordVerify(rq, rq.user.id, rq.pass, "actions.changepassword")
      \* actions.logout: params.userid (in name) must be the caller's id;
      \* Session.logout returns at once when no session is bound
      [] rq.act = "logout" ->
            IF rq.name = <<>> \/ rq.name # rq.user.id \/ rq.user.id = toID(GuestName)
            THEN [rq EXCEPT !.pc = "done", !.result = MkResult("actionsuccess", "false")]
            ELSE IF rq.session = 0
            THEN [rq EXCEPT !.pc = "done", !.result = MkResult("actionsuccess", "true")]
            ELSE [rq EXCEPT !.pc = "logout"]

\* what the client sends with each action: name and pass for login, username
\* and password for register, userid for getassertion, oldpassword and
\* password for changepassword
Inputs ==
    {[act |-> "login", name |-> n, pass |-> p, newpass |-> <<>>] :
        n \in Names, p \in Passwords}
    \cup {[act |-> "register", name |-> n, pass |-> <<"pw1">>, newpass |-> <<>>] :
        n \in Names}
    \cup {[act |-> "getassertion", name |-> n, pass |-> <<>>, newpass |-> <<>>] :
        n \in Names}
    \cup {[act |-> "changepassword", name |-> <<>>, pass |-> p, newpass |-> <<"pw2">>] :
        p \in Passwords}

\* ActionContext.executeActions: a request arrives (in a context that is free
\* or has answered, the contexts below it having been used), getUser resolves
\* its cookie
Free(r) == req[r].pc \in {"idle", "done"}

\* the request `in` (with challengekeyid parameter keyid, -1 when there is
\* none) arrives from ip with the sid cookie scookie, as one of at most max
Arrive(r, max, in, keyid, ip, scookie, challenge) ==
    /\ Free(r)
    /\ started < max
    /\ \A q \in Reqs : q < r => req[q].pc # "idle"
    /\ LET r0 == [IdleReq EXCEPT !.pc = "getUser", !.act = in.act, !.name = in.name,
                     !.pass = in.pass, !.newpass = in.newpass, !.keyid = keyid,
                     !.ip = ip, !.challenge = challenge, !.ctime = now,
                     !.overlap = {q \in Reqs : req[q].pc \notin {"idle", "done"}}]
           r1 == getUser(r0, scookie)
       IN  req' = [req EXCEPT ![r] = IF r1.pc = "cli_expired" THEN r1 ELSE Dispatch(r1)]
    /\ started' = started + 1
    /\ UNCHANGED <<http, oauthTokens, tokenLog, users, sessions, nextSession, loginthrottle, now, cfg, nextSid, ticks>>

Start(r) ==
    \E in \in Inputs, ip \in IPs, scookie \in Cookies, challenge \in Challenges :
        Arrive(r, MaxRequests, in, -1, ip, scookie, challenge)

\* checkLoggedIn, session expired: the delete, deleteCookie, return null
CheckLoggedInExpired(r) ==
    /\ req[r].pc = "cli_expired"
    /\ sessions' = DeleteWhere(sessions,
                        {k \in DOMAIN sessions : sessions[k].timeout = req[r].ctime})
    /\ req' = [req EXCEPT ![r] = Dispatch(deleteCookie(req[r]))]
    /\ UNCHANGED <<http, oauthTokens, tokenLog, users, nextSession, loginthrottle, now, cfg, nextSid, started, ticks>>

\* ------------------------------------------------- Session.passwordVerify
Locked_late(count) == count > THROTTLE_LIMIT + 1
Locked(count) == count > THROTTLE_LIMIT
WindowOver(row) == row.time + THROTTLE_WINDOW < now

\* login, line 184: if (!verified) throw
LoginRejects_never(verified) == FALSE
LoginRejects(verified) == ~verified

\* the caller of passwordVerify goes on with its result
PVReturn(rq, verified) ==
    LET caller == Head(rq.stack)
        r1 == [rq EXCEPT !.stack = Tail(rq.stack), !.throttleTable = <<>>,
                         !.userData = <<>>,
                         !.pvResult = IF verified THEN "true" ELSE "false",
                         !.auth = IF verified THEN rq.auth \cup {toID(rq.callName)}
                                  ELSE rq.auth]
    IN  IF caller = "login"
        THEN IF LoginRejects(verified) THEN Throw(r1, "Wrong password.")
             ELSE [r1 EXCEPT !.pc = "login_insert"]
        ELSE \* actions.changepassword
             \* changePassword(this.user.id, password) is called; `before` keeps
             \* the sessions the account has at that moment
             IF verified
             THEN [r1 EXCEPT !.pc = "cp_get",
                             !.before = {k \in DOMAIN sessions :
                                            sessions[k].userid = toID(rq.user.id)}]
             ELSE Throw(r1, "Your old password was incorrect.")

\* loginthrottle.get, the lockout test and the window reset
PVThrottle(r) ==
    /\ req[r].pc = "pv_throttle"
    /\ LET t == Get(loginthrottle, req[r].ip)
           rq == [req[r] EXCEPT !.pvCount = IF t = <<>> THEN -1 ELSE t[1].count,
                                !.pvTime = IF t = <<>> THEN -1 ELSE t[1].time,
                                !.pvAt = now]
       IN  req' = [req EXCEPT ![r] =
              IF t # <<>> /\ Locked(t[1].count)
              THEN [rq EXCEPT !.pc = "pv_lockout",
                              !.throttleTable = <<[count |-> t[1].count + 1, time |-> t[1].time]>>]
              ELSE IF t # <<>> /\ WindowOver(t[1])
              THEN [rq EXCEPT !.pc = "pv_user",
                              !.throttleTable = <<[count |-> 0, time |-> now]>>]
              ELSE [rq EXCEPT !.pc = "pv_user",
                              !.throttleTable =
                                 IF t = <<>> THEN <<>>
                                 ELSE <<[count |-> t[1].count, time |-> t[1].time]>>]]
    /\ UNCHANGED <<http, oauthTokens, tokenLog, users, sessions, nextSession, loginthrottle, now, cfg, nextSid,
                   started, ticks>>

\* Table.update of loginthrottle: changes the row if there is one
ThrottleUpdate_uncounted(ip, count, userid) == loginthrottle
ThrottleUpdate_twice(ip, count, userid) ==
    IF ip \in DOMAIN loginthrottle
    THEN Put(loginthrottle, ip, [count |-> count + 1, time |-> now, lastuserid |-> userid])
    ELSE loginthrottle
ThrottleUpdate(ip, count, userid) ==
    IF ip \in DOMAIN loginthrottle
    THEN Put(loginthrottle, ip, [count |-> count, time |-> now, lastuserid |-> userid])
    ELSE loginthrottle

\* locked out: count the attempt, return false
PVLockout(r) ==
    /\ req[r].pc = "pv_lockout"
    /\ LET rq == req[r]
       IN  /\ loginthrottle' = ThrottleUpdate(rq.ip, rq.throttleTable[1].count,
                                              toID(rq.callName))
           /\ req' = [req EXCEPT ![r] = PVReturn(rq, FALSE)]
    /\ UNCHANGED <<http, oauthTokens, tokenLog, users, sessions, nextSession, now, cfg, nextSid, started, ticks>>

\* google-auth-library verifyIdToken: the payload of a token Google signed
\* for this deployment, nothing for anything else
IdTokenPayload(idToken) ==
    IF idToken = <<"idtoken-al">> THEN <<[email |-> <<"al@gmail.com">>]>> ELSE <<>>

\* what passwordVerify decides once it has the account: "true", "false" or
\* "mismatch" (false after recording the failure)
VerifyAgainst(userData, pass) ==
    IF userData # <<>> /\ EndsWithAt(userData[1].email)
    THEN LET payload == IdTokenPayload(pass)
         IN  IF payload = <<>> THEN "false"
             ELSE IF payload[1].email =
                        SubSeq(userData[1].email, 1, Len(userData[1].email) - 1)
                  THEN "true" ELSE "false"
    ELSE IF userData # <<>> /\ userData[1].passwordhash # <<>>
    THEN IF ~bcryptCompare(pass, sanitizeHash(userData[1].passwordhash))
         THEN "mismatch" ELSE "true"
    ELSE "false"

\* users.get and the comparison
PVUser_persist(r) ==
    /\ req[r].pc = "pv_user"
    /\ LET rq == [req[r] EXCEPT !.pvLoaded = TRUE]
           userData == Get(users, toID(rq.callName))
           v == VerifyAgainst(userData, rq.callPass)
       IN  /\ req' = [req EXCEPT ![r] =
                 IF v = "mismatch" THEN [rq EXCEPT !.pc = "pv_fail"]
                 ELSE PVReturn(rq, v = "true")]
           /\ loginthrottle' =
                 IF v = "true" /\ rq.throttleTable # <<>>
                 THEN Put(loginthrottle, rq.ip,
                          [loginthrottle[rq.ip] EXCEPT
                              !.count = rq.throttleTable[1].count,
                              !.time = rq.throttleTable[1].time])
                 ELSE loginthrottle
    /\ UNCHANGED <<http, oauthTokens, tokenLog, users, sessions, nextSession, now, cfg, nextSid,
                   started, ticks>>
PVUser(r) ==
    /\ req[r].pc = "pv_user"
    /\ LET rq == [req[r] EXCEPT !.pvLoaded = TRUE]
           userData == Get(users, toID(rq.callName))
           v == VerifyAgainst(userData, rq.callPass)
       IN  req' = [req EXCEPT ![r] =
              IF v = "mismatch" THEN [rq EXCEPT !.pc = "pv_fail"]
              ELSE PVReturn(rq, v = "true")]
    /\ UNCHANGED <<http, oauthTokens, tokenLog, users, sessions, nextSession, loginthrottle, now, cfg, nextSid,
                   started, ticks>>

\* wrong password: record the failure (update, or insert when no row was read)
PVFail(r) ==
    /\ req[r].pc = "pv_fail"
    /\ LET rq == req[r]
       IN  IF rq.throttleTable # <<>>
           THEN /\ loginthrottle' = ThrottleUpdate(rq.ip, rq.throttleTable[1].count + 1,
                                                   toID(rq.callName))
                /\ req' = [req EXCEPT ![r] = PVReturn(rq, FALSE)]
           ELSE IF rq.ip \in DOMAIN loginthrottle
           THEN \* duplicate primary key: the insert throws
                /\ loginthrottle' = loginthrottle
                /\ req' = [req EXCEPT ![r] =
                      [rq EXCEPT !.pc = "done",
                                 !.result = MkResult("crash", "Internal Server Error")]]
           ELSE /\ loginthrottle' = Put(loginthrottle, rq.ip,
                      [count |-> 1, time |-> now, lastuserid |-> toID(rq.callName)])
                /\ req' = [req EXCEPT ![r] = PVReturn(rq, FALSE)]
    /\ UNCHANGED <<http, oauthTokens, tokenLog, users, sessions, nextSession, now, cfg, nextSid, started, ticks>>

\* ----------------------------------------------------------- Session.login
\* Session.makeSid: 24 random bytes, a secret nobody has seen before
makeSid_reuse(rq) == IF rq.cookieSid # <<>> THEN rq.cookieSid ELSE <<SidToks[nextSid + 1]>>
makeSid(rq) == <<SidToks[nextSid + 1]>>

GATarget(rq) ==
    IF rq.act = "getassertion"
    THEN (IF toID(rq.name) # <<>> THEN toID(rq.name) ELSE rq.user.id)
    ELSE toID(rq.name)

\* the caller of login goes on once login has returned the user
LoginReturn(rq) ==
    LET caller == Head(rq.stack)
        r1 == [rq EXCEPT !.stack = Tail(rq.stack)]
    IN  IF caller = "changePassword"
        THEN [r1 EXCEPT !.pc = "done", !.result = MkResult("actionsuccess", "true")]
        ELSE \* actions.login, or addUser for actions.register
             [r1 EXCEPT !.pc = "ga_userdata"]

\* await this.logout()
LoginLogout(r) ==
    /\ req[r].pc = "login_logout"
    /\ LET rq == req[r]
       IN  IF rq.session # 0
           THEN /\ sessions' = DeleteWhere(sessions, {rq.session})
                /\ req' = [req EXCEPT ![r] =
                      [rq EXCEPT !.pc = "login_get", !.sidhash = <<>>, !.session = 0,
                                 !.user = Guest]]
           ELSE /\ sessions' = sessions
                /\ req' = [req EXCEPT ![r] = [rq EXCEPT !.pc = "login_get"]]
    /\ UNCHANGED <<http, oauthTokens, tokenLog, users, nextSession, loginthrottle, now, cfg, nextSid, started, ticks>>

\* actions.logout: Session.logout(true) deletes the bound session, forgets the
\* secret and the session id, clears the cookie and logs the user out
Logout_everywhere(r) ==
    /\ req[r].pc = "logout"
    /\ LET rq == req[r]
           r1 == deleteCookie([rq EXCEPT !.sidhash = <<>>, !.session = 0])
       IN  /\ sessions' = DeleteWhere(sessions,
                  {k \in DOMAIN sessions : sessions[k].userid = rq.user.id})
           /\ req' = [req EXCEPT ![r] =
                  [r1 EXCEPT !.user = Guest, !.pc = "done",
                             !.result = MkResult("actionsuccess", "true")]]
    /\ UNCHANGED <<http, oauthTokens, tokenLog, users, nextSession, loginthrottle, now, cfg, nextSid, started, ticks>>
Logout(r) ==
    /\ req[r].pc = "logout"
    /\ LET rq == req[r]
           r1 == deleteCookie([rq EXCEPT !.sidhash = <<>>, !.session = 0])
       IN  /\ sessions' = DeleteWhere(sessions, {rq.session})
           /\ req' = [req EXCEPT ![r] =
                  [r1 EXCEPT !.user = Guest, !.pc = "done",
                             !.result = MkResult("actionsuccess", "true")]]
    /\ UNCHANGED <<http, oauthTokens, tokenLog, users, nextSession, loginthrottle, now, cfg, nextSid, started, ticks>>

\* users.get(userid): an unregistered name is adopted, a registered one is verified
LoginGet_verifies(r) ==
    /\ req[r].pc = "login_get"
    /\ req' = [req EXCEPT ![r] =
                  CallPasswordVerify(req[r], req[r].callName, req[r].callPass, "login")]
    /\ UNCHANGED <<http, oauthTokens, tokenLog, users, sessions, nextSession, loginthrottle, now, cfg, nextSid,
                   started, ticks>>
LoginGet(r) ==
    /\ req[r].pc = "login_get"
    /\ LET rq == req[r]
           info == Get(users, toID(rq.callName))
       IN  req' = [req EXCEPT ![r] =
              IF info = <<>>
              THEN LoginReturn([rq EXCEPT !.user = UserLogin(rq.callName)])
              ELSE CallPasswordVerify(rq, rq.callName, rq.callPass, "login")]
    /\ UNCHANGED <<http, oauthTokens, tokenLog, users, sessions, nextSession, loginthrottle, now, cfg, nextSid,
                   started, ticks>>

\* sessions.insert of login: a row under a new session id, next to the others
SessionsInsert_single(insertId, row) ==
    Put(DeleteWhere(sessions, {k \in DOMAIN sessions : sessions[k].userid = row.userid}),
        insertId, row)
SessionsInsert(insertId, row) == Put(sessions, insertId, row)

\* verified: a new secret, a new sessions row, the user is logged in
LoginInsert(r) ==
    /\ req[r].pc = "login_insert"
    /\ nextSid < Len(SidToks)
    /\ LET rq == req[r]
           sidhash == makeSid(rq)
       IN  /\ sessions' = SessionsInsert(nextSession,
                  [userid |-> toID(rq.callName), sid |-> bcryptHash(sidhash),
                   timeout |-> rq.curTime + SID_DURATION])
           /\ req' = [req EXCEPT ![r] =
                  LoginReturn([rq EXCEPT !.sidhash = sidhash, !.session = nextSession,
                                         !.user = UserLogin(rq.callName),
                                         !.inserted = rq.inserted \cup {nextSession}])]
    /\ nextSession' = nextSession + 1
    /\ nextSid' = nextSid + 1
    /\ UNCHANGED <<http, oauthTokens, tokenLog, users, loginthrottle, now, cfg, started, ticks>>

\* ---------------------------------------------------- Session.getAssertion
Contains(s, term) ==
    \E i \in 1..(Len(s) - Len(term) + 1) : SubSeq(s, i, i + Len(term) - 1) = term

\* Session.getBannedNameTerms, the pattern /(lol|ror)icon/ written out
BannedNameTerms == {
    <<"n", "i", "g", "g", "e", "r">>, <<"n", "i", "g", "g", "a">>,
    <<"f", "a", "g", "g", "o", "t">>,
    <<"l", "o", "l", "i", "c", "o", "n">>, <<"r", "o", "r", "i", "c", "o", "n">>,
    <<"l", "a", "z", "y", "a", "f", "r", "i", "c", "a", "n">>,
    <<"t", "r", "a", "n", "n", "y">>}

isUseridAllowed_any(userid) == TRUE
isUseridAllowed(userid) == \A term \in BannedNameTerms : ~Contains(userid, term)

ServerHost == "sim3.psim.us"

GAMessage(text) == MkResult("message", text)

\* getAssertion has returned `result`; the action that called it goes on:
\* actions.login calls setSid (makeSid when there is no secret, updateCookie)
GAReturn(rq, result) ==
    LET r1 == [rq EXCEPT !.pc = "done", !.result = result, !.userData = <<>>,
                         !.userType = ""]
    IN  IF rq.act = "login"
        THEN updateCookie([r1 EXCEPT !.sidhash =
                 IF rq.sidhash = <<>> THEN makeSid(rq) ELSE rq.sidhash])
        ELSE r1

\* whether that continuation draws a secret from makeSid
GAReturnMakesSid(rq) == rq.act = "login" /\ rq.sidhash = <<>>

\* the challenge handling and the signature, lines 293-336
SplitChallenge(challenge) ==
    LET a == Split(challenge, ";")
        b == Split(challenge, "%7C")
        c == Split(challenge, "|")
    IN  IF Len(a) > 1 THEN a ELSE IF Len(b) > 1 THEN b ELSE c

KeyIdOK_uncompromised(keyid) ==
    ~keyid.nan /\ keyid.val >= 1 /\ keyid.val \notin cfg.compromisedkeys
KeyIdOK_active(keyid) == ~keyid.nan /\ keyid.val >= 1 /\ keyid.val = cfg.challengekeyid
KeyIdOK(keyid) ==
    /\ ~keyid.nan => ~(keyid.val < 1)
    /\ keyid.nan \/ keyid.val \notin cfg.compromisedkeys
    /\ ~keyid.nan /\ keyid.val = cfg.challengekeyid

KeyIdMessage(keyid) ==
    IF ~keyid.nan /\ keyid.val < 1
    THEN ";;This server is requesting an invalid login key."
    ELSE IF ~keyid.nan /\ keyid.val \in cfg.compromisedkeys
    THEN ";;This server is using a login key which is no longer supported."
    ELSE ";;Unknown key ID"

GASign(rq, userid, userType) ==
    LET splitChallenge == SplitChallenge(rq.challenge)
        delimited == Len(splitChallenge) > 1
        challengekeyid == IF delimited THEN ParseInt(splitChallenge[1])
                          ELSE [nan |-> FALSE, val |-> rq.keyid]
        challenge == IF delimited THEN splitChallenge[2] ELSE rq.challenge
    IN  IF toID(challenge) = <<>> THEN GAMessage(";;Corrupt challenge")
        ELSE IF ~KeyIdOK(challengekeyid) THEN GAMessage(KeyIdMessage(challengekeyid))
        ELSE [MkResult("assertion", "") EXCEPT
                 !.userid = userid, !.usertype = userType, !.challenge = challenge,
                 !.time = now, !.registered = userid \in DOMAIN users]

GAFinish(rq, userType) ==
    GAReturn([rq EXCEPT !.gaData = TRUE], GASign(rq, GATarget(rq), userType))

NeedsLoginTime(logintime) == logintime = 0 \/ now - logintime > LOGINTIME_INTERVAL

\* end of the "already logged in" branch: stamp logintime, or sign at once
GAAfterType(rq, userType, logintime) ==
    IF NeedsLoginTime(logintime)
    THEN [rq EXCEPT !.pc = "ga_logintime", !.userType = userType]
    ELSE GAFinish(rq, userType)

\* the usertype of a user logged in as userid, lines 237-267: a usertype,
\* "gone" for the early return, or "ladder" when the ladder must be asked
UserTypeOf(user, ip, banstate, registertime) ==
    IF user.id \in cfg.sysops THEN "3"
    ELSE IF ip \in cfg.autolockip THEN "5"
    ELSE IF cfg.getUserType # "" THEN cfg.getUserType
    ELSE IF banstate <= -10 THEN "4"
    ELSE IF banstate >= BANSTATE_GONE THEN "gone"
    ELSE IF banstate >= 40 THEN "2"
    ELSE IF banstate >= 30 THEN "6"
    ELSE IF banstate >= 20 THEN "5"
    ELSE IF banstate = 0 /\ registertime # 0 /\ now - registertime > AUTOCONFIRM_AGE
    THEN "ladder"
    ELSE "2"

\* name checks, users.get(user.id) for a logged-in user, and the branch
GAUserData(r) ==
    /\ req[r].pc = "ga_userdata"
    /\ LET userid == GATarget(req[r])
           user == req[r].user
           userData == IF user.loggedIn # <<>> THEN Get(users, user.id) ELSE <<>>
           banstate == IF userData # <<>> THEN userData[1].banstate ELSE 0
           registertime == IF userData # <<>> THEN userData[1].registertime ELSE 0
           logintime == IF userData # <<>> THEN userData[1].logintime ELSE 0
           early ==
              IF userid = toID(GuestName) THEN ";"
              ELSE IF StartsWith(userid, toID(GuestName))
              THEN ";;Your username cannot start with 'guest'."
              ELSE IF Len(userid) > MAX_USERID_LEN
              THEN ";;Your username must be less than 19 characters long."
              ELSE IF ~isUseridAllowed(userid)
              THEN ";;Your username contains disallowed text."
              ELSE ""
           rq == [req[r] EXCEPT !.gaData = FALSE,
                     !.gaStore = IF early = "" /\ user.loggedIn # <<>> THEN 1 ELSE 0]
           t == UserTypeOf(user, rq.ip, banstate, registertime)
           next ==
              IF early # "" THEN GAReturn(rq, GAMessage(early))
              ELSE IF user.loggedIn = userid
              THEN IF t = "gone"
                   THEN GAReturn(rq, GAMessage(";;Your username is no longer available."))
                   ELSE IF t = "ladder"
                   THEN [rq EXCEPT !.pc = "ga_ladder", !.userData = userData]
                   ELSE GAAfterType(rq, t, logintime)
              ELSE IF Len(userid) < 1 \/ ~HasLetter(userid)
              THEN GAReturn(rq, GAMessage(";;Your username must contain at least one letter."))
              ELSE [rq EXCEPT !.pc = "ga_userstate"]
       IN  /\ req' = [req EXCEPT ![r] = next]
           /\ nextSid' = IF next.pc = "done" /\ GAReturnMakesSid(rq)
                         THEN nextSid + 1 ELSE nextSid
    /\ UNCHANGED <<http, oauthTokens, tokenLog, users, sessions, nextSession, loginthrottle, now, cfg, started, ticks>>

\* Table.update of users: changes the row if there is one
UsersUpdate(userid, data) ==
    IF userid \in DOMAIN users
    THEN Put(users, userid,
             [f \in DOMAIN users[userid] |->
                 IF f \in DOMAIN data THEN data[f] ELSE users[userid][f]])
    ELSE users

\* banstate 0 and registered for a week: a ladder row with a win promotes
GALadder(r) ==
    /\ req[r].pc = "ga_ladder"
    /\ \E ladders \in BOOLEAN :
          LET rq == [req[r] EXCEPT !.gaStore = @ + (IF ladders THEN 2 ELSE 1)]
              userid == GATarget(rq)
              next == GAAfterType(rq, IF ladders THEN "4" ELSE "2",
                                  rq.userData[1].logintime)
          IN  /\ users' = IF ladders
                          THEN UsersUpdate(userid, [banstate |-> -10])
                          ELSE users
              /\ req' = [req EXCEPT ![r] = next]
              /\ nextSid' = IF next.pc = "done" /\ GAReturnMakesSid(rq)
                            THEN nextSid + 1 ELSE nextSid
    /\ UNCHANGED <<http, oauthTokens, tokenLog, sessions, nextSession, loginthrottle, now, cfg, started, ticks>>

\* users.update(userid, {logintime, loginip}), then sign
GALoginTime(r) ==
    /\ req[r].pc = "ga_logintime"
    /\ LET rq == [req[r] EXCEPT !.gaStore = @ + 1]
           userid == GATarget(rq)
       IN  /\ users' = UsersUpdate(userid, [logintime |-> now])
           /\ req' = [req EXCEPT ![r] = GAFinish(rq, rq.userType)]
           /\ nextSid' = IF GAReturnMakesSid(rq) THEN nextSid + 1 ELSE nextSid
    /\ UNCHANGED <<http, oauthTokens, tokenLog, sessions, nextSession, loginthrottle, now, cfg, started, ticks>>

\* not logged in as userid: a registered name is refused, a free one gets usertype 1
GAUserState(r) ==
    /\ req[r].pc = "ga_userstate"
    /\ LET rq == [req[r] EXCEPT !.gaStore = @ + 1]
           userid == GATarget(rq)
           userstate == Get(users, userid)
           next ==
              IF userstate # <<>>
              THEN IF userstate[1].banstate >= BANSTATE_GONE
                   THEN GAReturn(rq, GAMessage(";;Your username is no longer available."))
                   ELSE IF EndsWithAt(userstate[1].email)
                   THEN GAReturn(rq, GAMessage(";;@gmail"))
                   ELSE GAReturn(rq, GAMessage(";"))
              ELSE GAFinish(rq, IF rq.ip \in cfg.autolockip THEN "5" ELSE "1")
       IN  /\ req' = [req EXCEPT ![r] = next]
           /\ nextSid' = IF GAReturnMakesSid(rq) THEN nextSid + 1 ELSE nextSid
    /\ UNCHANGED <<http, oauthTokens, tokenLog, users, sessions, nextSession, loginthrottle, now, cfg, started, ticks>>

\* --------------------------------------------------- Session.changePassword
\* users.get(userid): no such account, return false
CPGet(r) ==
    /\ req[r].pc = "cp_get"
    /\ LET rq == req[r]
           userData == Get(users, toID(rq.user.id))
       IN  req' = [req EXCEPT ![r] =
              IF userData = <<>>
              THEN [rq EXCEPT !.pc = "done", !.result = MkResult("actionsuccess", "false")]
              ELSE [rq EXCEPT !.pc = "cp_update"]]
    /\ UNCHANGED <<http, oauthTokens, tokenLog, users, sessions, nextSession, loginthrottle, now, cfg, nextSid,
                   started, ticks>>

\* users.update(userid, {passwordhash, nonce: null})
CPUpdate(r) ==
    /\ req[r].pc = "cp_update"
    /\ LET rq == req[r]
       IN  /\ users' = UsersUpdate(toID(rq.user.id),
                                    [passwordhash |-> bcryptHash(rq.newpass)])
           /\ req' = [req EXCEPT ![r] = [rq EXCEPT !.pc = "cp_delete"]]
    /\ UNCHANGED <<http, oauthTokens, tokenLog, sessions, nextSession, loginthrottle, now, cfg, nextSid, started, ticks>>

\* the rows of DELETE FROM sessions WHERE userid = userid
SessionsOf_own(userid, session) == {k \in DOMAIN sessions : k = session}
SessionsOf(userid, session) == {k \in DOMAIN sessions : sessions[k].userid = userid}

\* sessions.deleteAll WHERE userid = userid, then log in again with the new password
CPDelete(r) ==
    /\ req[r].pc = "cp_delete"
    /\ LET rq == req[r]
           userid == toID(rq.user.id)
       IN  /\ sessions' = DeleteWhere(sessions, SessionsOf(userid, rq.session))
           /\ req' = [req EXCEPT ![r] =
                  IF rq.user.id = userid
                  THEN CallLogin(rq, rq.user.id, rq.newpass, "changePassword")
                  ELSE [rq EXCEPT !.pc = "done",
                                  !.result = MkResult("actionsuccess", "true")]]
    /\ UNCHANGED <<http, oauthTokens, tokenLog, users, nextSession, loginthrottle, now, cfg, nextSid, started, ticks>>

\* ----------------------------------------------------------- actions.register
REGISTER_PERIOD == 2 * 60 * 60

\* users.get(userid): the name must be free
RegGet(r) ==
    /\ req[r].pc = "reg_get"
    /\ LET rq == req[r]
       IN  req' = [req EXCEPT ![r] =
              IF Get(users, toID(rq.name)) # <<>>
              THEN Throw(rq, "Your username is already taken.")
              ELSE [rq EXCEPT !.pc = "reg_count"]]
    /\ UNCHANGED <<http, oauthTokens, tokenLog, users, sessions, nextSession, loginthrottle, now, cfg, nextSid,
                   started, ticks>>

\* Session.getRecentRegistrationCount
RecentRegistrationCount(ip, period) ==
    Cardinality({u \in DOMAIN users :
                    users[u].ip = ip /\ users[u].registertime > now - period})

RegCount(r) ==
    /\ req[r].pc = "reg_count"
    /\ LET rq == req[r]
       IN  req' = [req EXCEPT ![r] =
              IF RecentRegistrationCount(rq.ip, REGISTER_PERIOD) > 2
              THEN Throw(rq, "You cannot register more than 2 names every 2 hours.")
              ELSE [rq EXCEPT !.pc = "reg_insert"]]
    /\ UNCHANGED <<http, oauthTokens, tokenLog, users, sessions, nextSession, loginthrottle, now, cfg, nextSid,
                   started, ticks>>

\* Session.addUser: users.insertIgnore, then login(username, password)
RegInsert(r) ==
    /\ req[r].pc = "reg_insert"
    /\ LET rq == req[r]
           userid == toID(rq.name)
       IN  IF userid \in DOMAIN users
           THEN /\ users' = users
                /\ req' = [req EXCEPT ![r] = Throw(rq, "Your username is already taken.")]
           ELSE /\ users' = Put(users, userid,
                      UserRow(bcryptHash(rq.pass), <<>>, 0, now, rq.ip))
                /\ req' = [req EXCEPT ![r] = CallLogin(rq, rq.name, rq.pass, "addUser")]
    /\ UNCHANGED <<http, oauthTokens, tokenLog, sessions, nextSession, loginthrottle, now, cfg, nextSid, started, ticks>>

\* ---------------------------------------------------------- specification
\* one step of the request in context r
Step(r) ==
    \/ CheckLoggedInExpired(r)
    \/ LoginLogout(r)
    \/ LoginGet(r)
    \/ PVThrottle(r)
    \/ PVLockout(r)
    \/ PVUser(r)
    \/ PVFail(r)
    \/ LoginInsert(r)
    \/ GAUserData(r)
    \/ GALadder(r)
    \/ GALoginTime(r)
    \/ GAUserState(r)
    \/ CPGet(r)
    \/ CPUpdate(r)
    \/ CPDelete(r)
    \/ RegGet(r)
    \/ RegCount(r)
    \/ RegInsert(r)

\* requests one after the other, while time passes
Next ==
    \/ Tick
    \/ Start(1)
    \/ Step(1)

Spec == Init /\ [][Next]_vars

\* NumReq requests at the same time, their store accesses interleaved
\* (one second later, when the old session has run out)
InitConc ==
    /\ InitAt(Now0 + 1)
    /\ cfg = ConfigDefault
    /\ users[al].banstate = 0

StartConc(r) == req[r].pc = "idle" /\ Start(r)

NextConc ==
    \/ \E r \in Reqs : StartConc(r)
    \/ \E r \in Reqs : Step(r)

SpecConc == InitConc /\ [][NextConc]_vars

\* ------------------------------------------------------------ IPTools
\* IPTools.parseExactInt: /^-?(0|[1-9][0-9]*)$/, else NaN
parseExactInt(str) ==
    LET neg == str # <<>> /\ Head(str) = "-"
        d == IF neg THEN Tail(str) ELSE str
        ok == /\ d # <<>>
              /\ \A i \in 1..Len(d) : d[i] \in DigitSet
              /\ Len(d) > 1 => d[1] # "0"
    IN  IF ok THEN [nan |-> FALSE, val |-> (IF neg THEN -1 ELSE 1) * DigitsVal(d, 1, 0)]
        ELSE [nan |-> TRUE, val |-> 0]

V4Mapped == <<":", ":", "f", "f", "f", "f", ":">>

\* IPTools.ipToNumber: <<the number>>, or <<>> for null
ipToNumber(ip0) ==
    LET ip1 == Trim(ip0)
        ip == IF StartsWith(ip1, V4Mapped) THEN SubSeq(ip1, 8, Len(ip1))
              ELSE IF StartsWith(ip1, <<":", ":">>) THEN SubSeq(ip1, 3, Len(ip1))
              ELSE ip1
        parts == Split(ip, ".")
        nums == [i \in 1..Len(parts) |-> parseExactInt(parts[i])]
    IN  IF Includes(ip1, ":") /\ ~Includes(ip1, ".") THEN <<>>
        ELSE IF Len(parts) # 4 THEN <<>>
        ELSE IF \E i \in 1..4 : nums[i].nan \/ nums[i].val < 0 \/ nums[i].val > 255
        THEN <<>>
        ELSE <<((nums[1].val * 256 + nums[2].val) * 256 + nums[3].val) * 256 + nums[4].val>>

\* IPTools.getCidrRange: <<[minIP, maxIP]>>, or <<>> for null
getCidrRange(cidr) ==
    LET \* cidr.indexOf('/'): 0-based, -1 when absent
        index == IF Includes(cidr, "/")
                 THEN (CHOOSE i \in 1..Len(cidr) :
                          cidr[i] = "/" /\ \A j \in 1..(i - 1) : cidr[j] # "/") - 1
                 ELSE -1
        ip == ipToNumber(cidr)
        low == ipToNumber(SubSeq(cidr, 1, index))
        bits == parseExactInt(SubSeq(cidr, index + 2, Len(cidr)))
    IN  IF cidr = <<>> THEN <<>>
        ELSE IF index <= 0
        THEN (IF ip = <<>> THEN <<>> ELSE <<[minIP |-> ip[1], maxIP |-> ip[1]]>>)
        ELSE IF low = <<>> \/ ~Truthy(bits) \/ bits.val < 2 \/ bits.val > 32 THEN <<>>
        ELSE <<[minIP |-> low[1], maxIP |-> low[1] + 2 ^ (32 - bits.val) - 1]>>

\* IPTools.checkPattern
checkPattern(rangeString, ip) ==
    LET num == IF ipToNumber(ip) = <<>> THEN 0 ELSE ipToNumber(ip)[1]
        range == getCidrRange(rangeString)
    IN  range # <<>> /\ range[1].minIP <= num /\ num <= range[1].maxIP

\* ------------------------------------------------- ActionContext, HTTP side
\* ActionContext.isTrustedProxy (privateRelayIPs is the list IPTools fills at
\* start-up, kept with the deployment's settings)
isTrustedProxy(ip) ==
    LET num == IF ipToNumber(ip) = <<>> THEN 0 ELSE ipToNumber(ip)[1]
    IN  \/ ip = V4Mapped \o <<"1", "2", "7", ".", "0", ".", "0", ".", "1">>
        \/ \E f \in cfg.trustedproxies : checkPattern(f, ip)
        \/ \E f \in cfg.privateRelayIPs : f.minIP <= num /\ num <= f.maxIP

\* the loop of getIp over the reversed list of hops, that is from the last
\* of ips to the first: the first hop met that is not a trusted proxy, else
\* the address it started with
RECURSIVE FirstUntrusted(_, _)
FirstUntrusted(ips, ip) ==
    IF ips = <<>> THEN ip
    ELSE IF ~isTrustedProxy(Trim(ips[Len(ips)])) THEN Trim(ips[Len(ips)])
    ELSE FirstUntrusted(SubSeq(ips, 1, Len(ips) - 1), ip)

\* ActionContext.getIp: the address, which is remembered when it is not ''
getIp(h) ==
    LET ip == h.socket
        found == IF isTrustedProxy(ip)
                 THEN FirstUntrusted(Split(h.xff, ","), ip)
                 ELSE ip
    IN  IF h.ip # <<>> THEN h.ip ELSE found

GetIp ==
    /\ Len(http.ipReturned) < MaxHttpCalls
    /\ http' = [http EXCEPT !.ip = getIp(http),
                            !.ipReturned = Append(@, getIp(http))]
    /\ UNCHANGED <<oauthTokens, tokenLog, users, sessions, nextSession,
                   loginthrottle, now, cfg, req, nextSid, started, ticks>>

\* the loop over Config.cors: the host of the last rule whose pattern matches
\* (a pattern is the set of origins it matches), <<>> for null
CorsPrefix_first(rules, origin) ==
    LET m == {i \in 1..Len(rules) : origin \in rules[i].matches}
    IN  IF m = {} THEN <<>>
        ELSE <<rules[CHOOSE i \in m : \A j \in m : i <= j].host>>
CorsPrefix(rules, origin) ==
    LET m == {i \in 1..Len(rules) : origin \in rules[i].matches}
    IN  IF m = {} THEN <<>>
        ELSE <<rules[CHOOSE i \in m : \A j \in m : i >= j].host>>

\* ActionContext.allowCORS(origin)
allowCORS(h, origin) ==
    [h EXCEPT !.allowOrigin = <<origin>>, !.allowCredentials = <<"true">>,
              !.allowCORSCalls = @ + 1]

\* this.prefix = prefix at the end of verifyCrossDomainRequest
Remember_not(prefix) == <<>>
Remember(prefix) == <<prefix>>

\* ActionContext.verifyCrossDomainRequest: the context, with the value
\* returned appended to prefixReturned
verifyCrossDomainRequest_recompute(h) ==
    LET prefix == CorsPrefix(cfg.cors, h.origin[1])
    IN  IF h.origin = <<>> \/ h.origin = <<"">> \/ prefix = <<>>
        THEN [h EXCEPT !.prefixReturned = Append(@, "")]
        ELSE [allowCORS(h, h.origin[1]) EXCEPT !.prefix = Remember(prefix[1]),
                                               !.prefixReturned = Append(@, prefix[1])]
verifyCrossDomainRequest(h) ==
    LET prefix == CorsPrefix(cfg.cors, h.origin[1])
    IN  IF h.prefix # <<>> THEN [h EXCEPT !.prefixReturned = Append(@, h.prefix[1])]
        ELSE IF h.origin = <<>> \/ h.origin = <<"">>
        THEN [h EXCEPT !.prefixReturned = Append(@, "")]
        ELSE IF prefix = <<>> THEN [h EXCEPT !.prefixReturned = Append(@, "")]
        ELSE [allowCORS(h, h.origin[1]) EXCEPT !.prefix = Remember(prefix[1]),
                                               !.prefixReturned = Append(@, prefix[1])]

VerifyCrossDomainRequest ==
    /\ Len(http.prefixReturned) < MaxHttpCalls
    /\ http' = verifyCrossDomainRequest(http)
    /\ UNCHANGED <<oauthTokens, tokenLog, users, sessions, nextSession,
                   loginthrottle, now, cfg, req, nextSid, started, ticks>>

\* ActionContext.setPrefix(prefix): '' as actions.login calls it, or the
\* string a custom action of Config.actions passes
SetPrefix ==
    /\ ~http.preset
    /\ \E prefix \in {"", "custom_"} :
          http' = [http EXCEPT !.prefix = <<prefix>>, !.preset = TRUE,
                               !.presetAt = Len(http.prefixReturned)]
    /\ UNCHANGED <<oauthTokens, tokenLog, users, sessions, nextSession,
                   loginthrottle, now, cfg, req, nextSid, started, ticks>>

\* a request as it arrives: the socket's peer (a proxy of the deployment, a
\* client, or the local proxy), the X-Forwarded-For header (<<>>: absent), the
\* Origin header (<<>>: absent), under a deployment's Config.cors (a pattern is
\* the set of origins it matches) and Config.trustedproxies
InitHttp ==
    LET Ip10001 == <<"1", "0", ".", "0", ".", "0", ".", "1">>
        Ip10002 == <<"1", "0", ".", "0", ".", "0", ".", "2">>
        Ip8888 == <<"8", ".", "8", ".", "8", ".", "8">>
        Ip9999 == <<"9", ".", "9", ".", "9", ".", "9">>
        Sockets == {Ip10001, Ip8888,
                    V4Mapped \o <<"1", "2", "7", ".", "0", ".", "0", ".", "1">>}
        XffHeaders == {
            <<>>,
            Ip8888,
            Ip10002,
            Ip8888 \o <<",", " ">> \o Ip10002,
            Ip9999 \o <<",">> \o Ip8888 \o <<",", " ">> \o Ip10002,
            Ip10002 \o <<",", " ">> \o Ip10001,
            <<"u", "n", "k", "n", "o", "w", "n", ",", " ">> \o Ip10002}
        Origins == {<<>>, <<"https://etheria.psim.us">>,
                    <<"https://play.pokemonshowdown.com">>, <<"https://evil.example">>}
        CorsTables == {
            <<>>,
            <<[matches |-> {"https://etheria.psim.us", "https://play.pokemonshowdown.com"},
               host |-> "psim_"],
              [matches |-> {"https://play.pokemonshowdown.com"}, host |-> ""]>>,
            <<[matches |-> {"https://etheria.psim.us"}, host |-> "server_"],
              [matches |-> {"https://etheria.psim.us"}, host |-> "etheria_"],
              [matches |-> {"https://play.pokemonshowdown.com"}, host |-> "play_"]>>}
        TrustedProxies == {{}, {<<"1", "0", ".", "0", ".", "0", ".", "0", "/", "8">>}}
    IN  /\ \E c \in CorsTables, t \in TrustedProxies :
              cfg = [ConfigDefault EXCEPT !.cors = c, !.trustedproxies = t]
        /\ \E socket \in Sockets, xff \in XffHeaders, origin \in Origins :
              http = [NoHttp EXCEPT !.socket = socket, !.xff = xff, !.origin = origin]
        /\ users = <<>>
        /\ sessions = <<>>
        /\ nextSession = 1
        /\ loginthrottle = <<>>
        /\ now = Now0
        /\ req = [r \in Reqs |-> IdleReq]
        /\ nextSid = 1
        /\ started = 0
        /\ ticks = 0
        /\ oauthTokens = <<>>
        /\ tokenLog = <<>>

NextHttp ==
    \/ GetIp
    \/ VerifyCrossDomainRequest
    \/ SetPrefix

SpecHttp == InitHttp /\ [][NextHttp]_vars

\* the rules of Config.cors that match the request's Origin header
MatchingRules ==
    IF http.origin = <<>> THEN {}
    ELSE {i \in 1..Len(cfg.cors) : http.origin[1] \in cfg.cors[i].matches}

\* what call number i of verifyCrossDomainRequest owes the caller: the host of
\* the last matching rule with the CORS headers granted for the origin, or ''
\* and no CORS header when no rule matches or there is no Origin header
LastRuleAnswer(i) ==
    IF MatchingRules = {}
    THEN /\ http.prefixReturned[i] = ""
         /\ http.allowOrigin = <<>>
         /\ http.allowCredentials = <<>>
    ELSE /\ \E k \in MatchingRules :
              /\ \A j \in MatchingRules : j <= k
              /\ http.prefixReturned[i] = cfg.cors[k].host
         /\ http.allowOrigin = http.origin
         /\ http.allowCredentials = <<"true">>

\* call number i was made before any setPrefix of the request
Unpinned(i) == ~http.preset \/ i <= http.presetAt

\* C17 as stated: every call of verifyCrossDomainRequest returns the prefix of
\* the last rule of Config.cors matching the Origin header and grants the CORS
\* headers for that origin, and returns '' without CORS headers when no rule
\* matches or there is no Origin header.
C17_LastRuleWins ==
    \A i \in 1..Len(http.prefixReturned) : LastRuleAnswer(i)

\* C17, amended: the same, for the calls made before the request's prefix was
\* fixed by setPrefix (actions.login fixes it to '' before its call, which
\* then returns '' and grants nothing whatever the rules say).
C17_LastRuleWinsUnpinned ==
    \A i \in 1..Len(http.prefixReturned) : Unpinned(i) => LastRuleAnswer(i)

\* an origin matched by two rules with different hosts got the later host
C17_Witness ==
    /\ Len(http.prefixReturned) >= 1
    /\ Unpinned(1)
    /\ \E j, k \in MatchingRules : j < k /\ cfg.cors[j].host # cfg.cors[k].host
    /\ LastRuleAnswer(1)

\* the two calls returned the same prefix, and allowCORS ran once if a rule
\* matches the Origin header and never if none does
SamePrefixOnce ==
    /\ http.prefixReturned[1] = http.prefixReturned[2]
    /\ http.allowCORSCalls = (IF MatchingRules = {} THEN 0 ELSE 1)

\* C16 as stated: two calls of verifyCrossDomainRequest in one request return
\* the same prefix, and the CORS headers are set exactly once when a rule
\* matches and never when none matches.
C16_Idempotent ==
    Len(http.prefixReturned) = 2 => SamePrefixOnce

\* C16, amended: the same, in a request where setPrefix was not called before
\* the second of the two calls.
C16_IdempotentUnpinned ==
    (Len(http.prefixReturned) = 2 /\ Unpinned(2)) => SamePrefixOnce

\* two calls with a matching rule of non-empty host, and no setPrefix
C16_Witness ==
    /\ Len(http.prefixReturned) = 2
    /\ ~http.preset
    /\ MatchingRules # {}
    /\ http.prefixReturned[2] # ""
    /\ http.allowCORSCalls = 1

\* the hops of the X-Forwarded-For header, most recently added first; none
\* when the header is absent
Hops ==
    IF http.xff = <<>> THEN <<>>
    ELSE LET parts == Split(http.xff, ",")
         IN  [i \in 1..Len(parts) |-> Trim(parts[Len(parts) + 1 - i])]

\* the address the rule of the trusted-proxy chain designates
ClientIp ==
    LET untrusted == {i \in 1..Len(Hops) : ~isTrustedProxy(Hops[i])}
    IN  IF ~isTrustedProxy(http.socket) THEN http.socket
        ELSE IF untrusted = {} THEN http.socket
        ELSE Hops[CHOOSE i \in untrusted : \A j \in untrusted : i <= j]

\* C18: getIp returns the socket address when the socket peer is not a trusted
\* proxy; otherwise the most recently added hop of X-Forwarded-For that is not
\* a trusted proxy; and the socket address when every hop is trusted, the
\* chain is empty or the header is absent.
C18_ClientIp ==
    \A i \in 1..Len(http.ipReturned) : http.ipReturned[i] = ClientIp

\* ------------------------------------------------- the sid cookie's journey
\* what a browser keeps of `Set-Cookie: sid=<value>; Max-Age=<n>; ...`: the
\* text up to the first ';', and nothing when Max-Age is 0
RECURSIVE UpToSemicolon(_)
UpToSemicolon(str) ==
    IF str = <<>> \/ Head(str) = ";" THEN <<>>
    ELSE <<Head(str)>> \o UpToSemicolon(Tail(str))

\* the Cookie header of the browser's next request
CookieHeader(header) ==
    IF ~header.set \/ header.maxAge = 0 THEN <<>>
    ELSE <<"s", "i", "d", "=">> \o UpToSemicolon(header.value)

\* the context that logged in, and the context of the browser's next request
CookieWriter == 1
CookieReader == 2

\* Session.setSid at the end of actions.login: the secret is there, so
\* updateCookie writes the Set-Cookie header
SetSid ==
    /\ req[CookieWriter].pc = "setsid"
    /\ req' = [req EXCEPT ![CookieWriter] = [updateCookie(@) EXCEPT !.pc = "done"]]
    /\ UNCHANGED <<http, oauthTokens, tokenLog, users, sessions, nextSession,
                   loginthrottle, now, cfg, nextSid, started, ticks>>

\* the next request: the Session constructor parses the Cookie header, and
\* checkLoggedIn resolves cookies.get('sid')
ReturnCookie ==
    /\ req[CookieWriter].pc = "done"
    /\ req[CookieReader].pc = "idle"
    /\ LET cookies == parseCookie(CookieHeader(req[CookieWriter].setCookie))
           sid == <<"s", "i", "d">>
           scookie == IF sid \in DOMAIN cookies.list THEN cookies.list[sid] ELSE <<>>
           r0 == [IdleReq EXCEPT !.ctime = now]
       IN  req' = [req EXCEPT ![CookieReader] =
                      IF cookies.threw THEN Throw(r0, "URIError")
                      ELSE [checkLoggedIn(r0, scookie) EXCEPT !.pc = "done"]]
    /\ UNCHANGED <<http, oauthTokens, tokenLog, users, sessions, nextSession,
                   loginthrottle, now, cfg, nextSid, started, ticks>>

\* a login has just created session k of the owner of a display name (whose
\* userid is al or bo) with a secret
InitCookie ==
    LET DisplayNames == {
            NameAl, NameAlDot, NameBo,
            <<"A", " ", "l">>, <<" ", "A", "l">>, <<"A", "%", "l">>, <<"A", ";", "l">>,
            <<"A", "=", "l">>, <<"A", "|", "l">>, <<"A", "%", "2", "C", "l">>,
            <<",", "A", "l">>, <<"A", "l", ",">>, <<"A", ",", "l">>,
            <<"B", ",", " ", "o">>}
        SessionIds == {1, 12}
        Secrets == {<<SidToks[1]>>, <<SidToks[2]>>}
    IN  \E name \in DisplayNames, k \in SessionIds, secret \in Secrets :
        /\ sessions = Put(<<>>, k, [userid |-> toID(name), sid |-> bcryptHash(secret),
                                    timeout |-> Now0 + SID_DURATION])
        /\ req = [r \in Reqs |->
                    IF r = CookieWriter
                    THEN [IdleReq EXCEPT !.pc = "setsid", !.user = UserLogin(name),
                                         !.session = k, !.sidhash = secret,
                                         !.ctime = Now0]
                    ELSE IdleReq]
        /\ nextSession = k + 1
        /\ users = <<>>
        /\ loginthrottle = <<>>
        /\ now = Now0
        /\ cfg = ConfigDefault
        /\ nextSid = 3
        /\ started = 1
        /\ ticks = 0
        /\ http = NoHttp
        /\ oauthTokens = <<>>
        /\ tokenLog = <<>>

NextCookie ==
    \/ SetSid
    \/ ReturnCookie

SpecCookie == InitCookie /\ [][NextCookie]_vars

\* the browser's next request came back with the cookie updateCookie wrote
CameBack ==
    /\ req[CookieWriter].setCookie.set
    /\ req[CookieWriter].setCookie.maxAge > 0
    /\ req[CookieReader].pc = "done"

\* C19: the cookie updateCookie writes for a Session row, parsed back by
\* parseCookie and given to checkLoggedIn against the same unexpired row,
\* resolves to the row's owner, for any display name and any secret.
C19_RoundTrip ==
    CameBack =>
        /\ req[CookieWriter].session \in DOMAIN sessions
        /\ req[CookieReader].user.loggedIn = sessions[req[CookieWriter].session].userid

\* -------------------------------------------------------- OAuth tokens
OAUTH_TOKEN_TIME == 2 * 7 * 24 * 60 * 60 * 1000

\* Date.now(): milliseconds, where time() is seconds
DateNow == now * 1000


\* the rows of oauth_clients (no action of the engine writes the table), and
\* the client_id parameters a caller sends
OAuthClients == {"app1", "app2"}
ClientParams == OAuthClients \cup {"nope"}

\* getOAuthClient without an origin: the ActionError it throws, or ""
getOAuthClient(clientId) ==
    IF clientId = "" THEN "No client_id provided."
    ELSE IF clientId \notin OAuthClients THEN "Invalid client_id"
    ELSE ""

\* the ids crypto.randomBytes(16).toString('hex') can produce, in the order of
\* the primary key; an id is never produced twice
TokenOrder == <<"t1", "t2", "t3", "t4", "t5">>
TokenIds == {TokenOrder[i] : i \in 1..Len(TokenOrder)}

\* oauthTokens.selectOne()`WHERE client = .. AND owner = ..`: LIMIT 1 without
\* ORDER BY returns the first matching row of the scan, which is in primary
\* key order; where a new (random) id falls in that order is arbitrary
selectOne_none(client, owner) == <<>>
selectOne(client, owner) ==
    LET m == {i \in 1..Len(TokenOrder) :
                 /\ TokenOrder[i] \in DOMAIN oauthTokens
                 /\ oauthTokens[TokenOrder[i]].client = client
                 /\ oauthTokens[TokenOrder[i]].owner = owner}
    IN  IF m = {} THEN <<>>
        ELSE <<oauthTokens[TokenOrder[CHOOSE i \in m : \A j \in m : i <= j]]>>

\* oauthTokens.delete(id)
OAuthTokensDelete_keep(table, id) == table
OAuthTokensDelete(table, id) == DeleteWhere(table, {id})

TokenExpired_never(row) == FALSE
TokenExpired(row) == DateNow - row.time > OAUTH_TOKEN_TIME

Success(rq, text) == [rq EXCEPT !.pc = "done", !.result = MkResult("success", text)]

\* history: a token is live from its insert until a refresh or an expiry
\* check deletes it
LogNew(log, id, replaces) == Put(log, id, [state |-> "live", replaces |-> replaces])
LogEnd(log, id, state) == [log EXCEPT ![id].state = state]

\* the previous request of context r was an authorize that returned a token
Authorized(rq) ==
    /\ rq.pc = "done"
    /\ rq.act = "oauth/api/authorize"
    /\ rq.result.kind = "success"
    /\ rq.result.text # "false"

\* an OAuth request arrives in context r with the sid cookie scookie
OAuthArrive(r, act, client, token, scookie) ==
    getUser([IdleReq EXCEPT !.act = act, !.client = client, !.token = token,
                            !.ip = "ip1", !.ctime = now,
                            !.challenge = <<"4", "|", "c">>,
                            !.tokenWas = IF token \in DOMAIN tokenLog
                                         THEN <<[state |-> tokenLog[token].state,
                                                 replaces |-> tokenLog[token].replaces,
                                                 expired |-> token \in DOMAIN oauthTokens
                                                     /\ DateNow - oauthTokens[token].time
                                                            > OAUTH_TOKEN_TIME]>>
                                         ELSE <<>>],
            scookie)

OAuthCookies == {<<>>, Cookie(NameAl, 1, <<SidToks[1]>>), Cookie(NameBo, 2, <<SidToks[2]>>)}

\* actions['oauth/api/authorize']
OAuthAuthorize(r) ==
    /\ Free(r)
    /\ started < MaxOAuthRequests
    /\ \E client \in ClientParams, scookie \in OAuthCookies, id \in TokenIds \ DOMAIN tokenLog :
          LET r0 == OAuthArrive(r, "oauth/api/authorize", client, "", scookie)
              rq == [r0 EXCEPT !.prevAuth =
                        IF Authorized(req[r]) /\ req[r].client = client
                           /\ req[r].user.id = r0.user.id
                        THEN req[r].result.text ELSE ""]
              existing == selectOne(client, rq.user.id)
          IN  IF rq.user.loggedIn = <<>>
              THEN /\ req' = [req EXCEPT ![r] = Throw(rq, "You're not logged in.")]
                   /\ UNCHANGED <<oauthTokens, tokenLog>>
              ELSE IF getOAuthClient(client) # ""
              THEN /\ req' = [req EXCEPT ![r] = Throw(rq, getOAuthClient(client))]
                   /\ UNCHANGED <<oauthTokens, tokenLog>>
              ELSE IF existing # <<>>
              THEN IF TokenExpired(existing[1])
                   THEN /\ oauthTokens' = OAuthTokensDelete(oauthTokens, existing[1].id)
                        /\ tokenLog' = LogEnd(tokenLog, existing[1].id, "expired")
                        /\ req' = [req EXCEPT ![r] = Success(rq, "false")]
                   ELSE /\ req' = [req EXCEPT ![r] = Success(rq, existing[1].id)]
                        /\ UNCHANGED <<oauthTokens, tokenLog>>
              ELSE /\ oauthTokens' = Put(oauthTokens, id,
                          [id |-> id, owner |-> rq.user.id, client |-> client,
                           time |-> DateNow])
                   /\ tokenLog' = LogNew(tokenLog, id, "")
                   /\ req' = [req EXCEPT ![r] = Success([rq EXCEPT !.minted = id], id)]
    /\ started' = started + 1
    /\ UNCHANGED <<http, users, sessions, nextSession, loginthrottle, now, cfg,
                   nextSid, ticks>>

\* actions['oauth/api/refreshtoken'] with no other request at work, its store
\* accesses in one step (RefreshStep takes them one by one); the token
\* parameter a caller sends is missing, or an id it has seen or made up
OAuthRefreshToken(r) ==
    /\ Free(r)
    /\ started < MaxOAuthRequests
    /\ \E client \in ClientParams, token \in TokenIds \cup {""}, id \in TokenIds \ DOMAIN tokenLog :
          LET rq == OAuthArrive(r, "oauth/api/refreshtoken", client, token, <<>>)
              tokenEntry == Get(oauthTokens, token)
          IN  IF getOAuthClient(client) # ""
              THEN /\ req' = [req EXCEPT ![r] = Throw(rq, getOAuthClient(client))]
                   /\ UNCHANGED <<oauthTokens, tokenLog>>
              ELSE IF token = ""
              THEN /\ req' = [req EXCEPT ![r] = Throw(rq, "No token provided.")]
                   /\ UNCHANGED <<oauthTokens, tokenLog>>
              ELSE IF tokenEntry = <<>>
              THEN /\ req' = [req EXCEPT ![r] = Success(rq, "false")]
                   /\ UNCHANGED <<oauthTokens, tokenLog>>
              ELSE /\ oauthTokens' = OAuthTokensDelete(
                          Put(oauthTokens, id,
                              [id |-> id, owner |-> tokenEntry[1].owner,
                               client |-> client, time |-> DateNow]),
                          tokenEntry[1].id)
                   /\ tokenLog' = LogEnd(LogNew(tokenLog, id, token), token, "refreshed")
                   /\ req' = [req EXCEPT ![r] = Success([rq EXCEPT !.minted = id], id)]
    /\ started' = started + 1
    /\ UNCHANGED <<http, users, sessions, nextSession, loginthrottle, now, cfg,
                   nextSid, ticks>>

\* actions['oauth/api/getassertion'] up to its call of Session.getAssertion
\* for the token's owner with the active key
OAuthGetAssertion(r) ==
    /\ Free(r)
    /\ started < MaxOAuthRequests
    /\ \E client \in ClientParams, token \in TokenIds \cup {""} :
          LET rq == OAuthArrive(r, "oauth/api/getassertion", client, token, <<>>)
              tokenEntry == Get(oauthTokens, token)
          IN  IF getOAuthClient(client) # ""
              THEN /\ req' = [req EXCEPT ![r] = Throw(rq, getOAuthClient(client))]
                   /\ UNCHANGED <<oauthTokens, tokenLog>>
              ELSE IF token = ""
              THEN /\ req' = [req EXCEPT ![r] = Throw(rq, "No token provided.")]
                   /\ UNCHANGED <<oauthTokens, tokenLog>>
              ELSE IF tokenEntry = <<>>
              THEN /\ req' = [req EXCEPT ![r] = Success(rq, "false")]
                   /\ UNCHANGED <<oauthTokens, tokenLog>>
              ELSE IF TokenExpired(tokenEntry[1])
              THEN /\ oauthTokens' = OAuthTokensDelete(oauthTokens, tokenEntry[1].id)
                   /\ tokenLog' = LogEnd(tokenLog, tokenEntry[1].id, "expired")
                   /\ req' = [req EXCEPT ![r] = Success(rq, "false")]
              ELSE /\ req' = [req EXCEPT ![r] =
                          [rq EXCEPT !.user = UserLogin(tokenEntry[1].owner),
                                     !.name = tokenEntry[1].owner,
                                     !.keyid = cfg.challengekeyid,
                                     !.pc = "ga_userdata"]]
                   /\ UNCHANGED <<oauthTokens, tokenLog>>
    /\ started' = started + 1
    /\ UNCHANGED <<http, users, sessions, nextSession, loginthrottle, now, cfg,
                   nextSid, ticks>>

\* oauthClients.selectOne()`WHERE origin_url = ..`: the id of the first client
\* registered with the URL, each client having a URL of its own
OAuthClientByUrl_first(uri) == <<"app1">>
OAuthClientByUrl(uri) ==
    IF uri = "https://one.example" THEN <<"app1">>
    ELSE IF uri = "https://two.example" THEN <<"app2">>
    ELSE <<>>

\* actions['oauth/api/revoke']
OAuthRevoke(r) ==
    /\ Free(r)
    /\ started < MaxOAuthRequests
    /\ \E uri \in {"", "https://one.example", "https://two.example", "https://none.example"},
          scookie \in OAuthCookies :
          LET r0 == OAuthArrive(r, "oauth/api/revoke", "", "", scookie)
              rq == [r0 EXCEPT !.uri = uri]
              client == OAuthClientByUrl(uri)
              tokenEntry == {t \in DOMAIN oauthTokens : oauthTokens[t].client = client[1]}
              deleted == {t \in tokenEntry : oauthTokens[t].owner = rq.user.id}
          IN  IF rq.user.loggedIn = <<>>
              THEN /\ req' = [req EXCEPT ![r] = Throw(rq, "You're not logged in.")]
                   /\ UNCHANGED <<oauthTokens, tokenLog>>
              ELSE IF uri = ""
              THEN /\ req' = [req EXCEPT ![r] = Throw(rq,
                          "Specify the URL of the application you wish to revoke access for.")]
                   /\ UNCHANGED <<oauthTokens, tokenLog>>
              ELSE IF client = <<>>
              THEN /\ req' = [req EXCEPT ![r] = Throw(rq, "No client found with that URL.")]
                   /\ UNCHANGED <<oauthTokens, tokenLog>>
              ELSE IF tokenEntry = {}
              THEN /\ req' = [req EXCEPT ![r] = Throw(rq,
                          "That application doesn't have access granted to your account.")]
                   /\ UNCHANGED <<oauthTokens, tokenLog>>
              ELSE /\ oauthTokens' = DeleteWhere(oauthTokens, deleted)
                   /\ tokenLog' = [t \in DOMAIN tokenLog |->
                                      IF t \in deleted
                                      THEN [tokenLog[t] EXCEPT !.state = "revoked"]
                                      ELSE tokenLog[t]]
                   /\ req' = [req EXCEPT ![r] = Success(rq, "true")]
    /\ started' = started + 1
    /\ UNCHANGED <<http, users, sessions, nextSession, loginthrottle, now, cfg,
                   nextSid, ticks>>

\* the store the OAuth requests start from: accounts al and bo with a session
\* each; no token, or one token of al for app1 that is new, expires this
\* second or has expired, or two tokens of al for app1 (a refreshtoken call
\* with another client's token leaves such a pair); bo's account may have been
\* disabled (banstate 100) while its session is still there
InitOAuth ==
    LET OAuthNow0 == Now0 + SID_DURATION + 1
        SeedTimes == {OAuthNow0 * 1000, OAuthNow0 * 1000 - OAUTH_TOKEN_TIME,
                      OAuthNow0 * 1000 - OAUTH_TOKEN_TIME - 1000}
        SeedRow(id, t) == [id |-> id, owner |-> al, client |-> "app1", time |-> t]
    IN  /\ \/ oauthTokens = <<>>
           \/ \E t \in SeedTimes : oauthTokens = Put(<<>>, "t2", SeedRow("t2", t))
           \/ \E t1, t3 \in SeedTimes :
                 /\ OAuthNow0 * 1000 \in {t1, t3}
                 /\ oauthTokens = Put(Put(<<>>, "t1", SeedRow("t1", t1)),
                                      "t3", SeedRow("t3", t3))
        /\ tokenLog = [id \in DOMAIN oauthTokens |-> [state |-> "live", replaces |-> ""]]
        /\ \E banstate \in {0, BANSTATE_GONE} :
              users = Put(Put(<<>>, al, UserRow(LegacyHash(<<"pw1">>), <<>>, 0, 1, "ip1")),
                          bo, UserRow(bcryptHash(<<"pw1">>), <<>>, banstate, OAuthNow0,
                                      "ip1"))
        /\ sessions = Put(Put(<<>>, 1, [userid |-> al, sid |-> bcryptHash(<<SidToks[1]>>),
                                        timeout |-> OAuthNow0 + SID_DURATION]),
                          2, [userid |-> bo, sid |-> bcryptHash(<<SidToks[2]>>),
                              timeout |-> OAuthNow0 + SID_DURATION])
        /\ nextSession = 3
        /\ loginthrottle = <<>>
        /\ now = OAuthNow0
        /\ cfg = ConfigDefault
        /\ req = [r \in Reqs |-> IdleReq]
        /\ nextSid = 3
        /\ started = 0
        /\ ticks = 0
        /\ http = NoHttp

NextOAuth ==
    \/ Tick
    \/ OAuthAuthorize(1)
    \/ OAuthRefreshToken(1)
    \/ OAuthGetAssertion(1)
    \/ OAuthRevoke(1)
    \/ GAUserData(1)
    \/ GALadder(1)
    \/ GALoginTime(1)

SpecOAuth == InitOAuth /\ [][NextOAuth]_vars

\* oauth/api/refreshtoken among other requests: the handler up to its first
\* access of oauth_tokens
StartRefresh(r) ==
    /\ Free(r)
    /\ started < MaxOAuthRequests
    /\ \E client \in ClientParams, token \in TokenIds \cup {""} :
          LET rq == OAuthArrive(r, "oauth/api/refreshtoken", client, token, <<>>)
          IN  req' = [req EXCEPT ![r] =
                         IF getOAuthClient(client) # ""
                         THEN Throw(rq, getOAuthClient(client))
                         ELSE IF token = "" THEN Throw(rq, "No token provided.")
                         ELSE [rq EXCEPT !.pc = "rt_get"]]
    /\ started' = started + 1
    /\ UNCHANGED <<http, oauthTokens, tokenLog, users, sessions, nextSession,
                   loginthrottle, now, cfg, nextSid, ticks>>

\* the three awaited accesses of oauth/api/refreshtoken, one a step: get(token),
\* insert of the new row (built, with its id and Date.now(), when get
\* returned), delete(tokenEntry.id)
RefreshStep(r) ==
    /\ \/ /\ req[r].pc = "rt_get"
          /\ LET tokenEntry == Get(oauthTokens, req[r].token)
             IN  req' = [req EXCEPT ![r] =
                            IF tokenEntry = <<>> THEN Success(req[r], "false")
                            ELSE [req[r] EXCEPT !.pc = "rt_insert",
                                                !.tokenEntry = tokenEntry,
                                                !.curTime = now]]
          /\ UNCHANGED <<oauthTokens, tokenLog>>
       \/ /\ req[r].pc = "rt_insert"
          /\ \E id \in TokenIds \ DOMAIN tokenLog :
                /\ oauthTokens' = Put(oauthTokens, id,
                       [id |-> id, owner |-> req[r].tokenEntry[1].owner,
                        client |-> req[r].client, time |-> req[r].curTime * 1000])
                /\ tokenLog' = LogNew(tokenLog, id, req[r].token)
                /\ req' = [req EXCEPT ![r].pc = "rt_delete", ![r].minted = id]
       \/ /\ req[r].pc = "rt_delete"
          /\ oauthTokens' = OAuthTokensDelete(oauthTokens, req[r].tokenEntry[1].id)
          /\ tokenLog' = LogEnd(tokenLog, req[r].token, "refreshed")
          /\ req' = [req EXCEPT ![r] = Success(req[r], req[r].minted)]
    /\ UNCHANGED <<http, users, sessions, nextSession, loginthrottle, now, cfg,
                   nextSid, started, ticks>>

NextRefresh ==
    \/ Tick
    \/ \E r \in Reqs : StartRefresh(r) \/ RefreshStep(r)

SpecRefresh == InitOAuth /\ [][NextRefresh]_vars

\* request r is an authorize call that followed, in its context, an authorize
\* call of the same owner for the same client which returned a token, and that
\* token had not expired when r was made
SecondAuthorize(r) ==
    /\ req[r].pc = "done"
    /\ req[r].act = "oauth/api/authorize"
    /\ req[r].prevAuth # ""
    /\ req[r].prevAuth \in DOMAIN oauthTokens
    /\ req[r].ctime * 1000 - oauthTokens[req[r].prevAuth].time <= OAUTH_TOKEN_TIME

\* C14: of two consecutive oauth/api/authorize calls by the same logged-in
\* owner for the same client, both made before the token's expiry, the second
\* returns the token id the first returned and inserts no row.
C14_SingleFlight ==
    \A r \in Reqs :
        SecondAuthorize(r) =>
            /\ req[r].result = MkResult("success", req[r].prevAuth)
            /\ req[r].minted = ""

\* the second call came a second after the first, which had inserted the token
C14_Witness ==
    \E r \in Reqs :
        /\ SecondAuthorize(r)
        /\ req[r].result.text = req[r].prevAuth
        /\ oauthTokens[req[r].prevAuth].time < req[r].ctime * 1000

\* request r is an OAuth call with a valid client_id that presents a token
OAuthCall(r, acts) ==
    /\ req[r].act \in acts
    /\ req[r].client \in OAuthClients
    /\ req[r].tokenWas # <<>>

\* the call was turned away with {success: false}
Refused(r) == req[r].pc = "done" /\ req[r].result = MkResult("success", "false")

\* C15: after a successful oauth/api/refreshtoken with token T the row T is
\* gone for good, every later oauth/api/getassertion or oauth/api/refreshtoken
\* presenting T returns {success: false}, and the replacement id the refresh
\* returned is in the table and is accepted by both.
C15_RefreshInvalidates ==
    /\ \A t \in DOMAIN tokenLog :
          tokenLog[t].state = "refreshed" => t \notin DOMAIN oauthTokens
    /\ \A r \in Reqs :
          /\ (OAuthCall(r, {"oauth/api/getassertion", "oauth/api/refreshtoken"})
               /\ req[r].tokenWas[1].state = "refreshed") => Refused(r)
          /\ (OAuthCall(r, {"oauth/api/refreshtoken"}) /\ req[r].minted # "") =>
                /\ req[r].result = MkResult("success", req[r].minted)
                /\ tokenLog[req[r].token].state = "refreshed"
                /\ tokenLog[req[r].minted].replaces = req[r].token
                /\ tokenLog[req[r].minted].state = "live" =>
                       req[r].minted \in DOMAIN oauthTokens
          /\ (OAuthCall(r, {"oauth/api/getassertion", "oauth/api/refreshtoken"})
               /\ req[r].tokenWas[1].state = "live"
               /\ req[r].tokenWas[1].replaces # ""
               /\ ~req[r].tokenWas[1].expired) => ~Refused(r)

\* a token that a refresh had replaced was presented to getassertion and
\* refused, while its replacement is in the table
C15_Witness ==
    \E r \in Reqs :
        /\ OAuthCall(r, {"oauth/api/getassertion"})
        /\ req[r].tokenWas[1].state = "refreshed"
        /\ Refused(r)
        /\ \E n \in DOMAIN oauthTokens : tokenLog[n].replaces = req[r].token

\* getassertion requests alone, over the userids, challenges and key ids that
\* getAssertion tells apart
MaxGARequests == 1

InitGA ==
    /\ \E k \in {{}, {3}, {4}} : cfg = [ConfigDefault EXCEPT !.compromisedkeys = k]
    /\ users = Put(<<>>, al, UserRow(LegacyHash(<<"pw1">>), <<>>, 0, 1, "ip1"))
    /\ sessions = Put(<<>>, 1, [userid |-> al, sid |-> bcryptHash(<<SidToks[1]>>),
                                timeout |-> Now0])
    /\ nextSession = 2
    /\ loginthrottle = <<>>
    /\ now = Now0
    /\ req = [r \in Reqs |-> IdleReq]
    /\ nextSid = 1
    /\ started = 0
    /\ ticks = 0
    /\ http = NoHttp
    /\ oauthTokens = <<>>
    /\ tokenLog = <<>>

StartGA(r) ==
    LET LongName == [i \in 1..(MAX_USERID_LEN + 1) |-> "a"]
        GANames == {
            NameAl, NameBo, <<>>, GuestName, GuestName \o <<"1">>,
            [i \in 1..MAX_USERID_LEN |-> "b"], LongName,
            <<"x", "L", "o", "l", "i", "c", "o", "n">>,
            <<"t", "r", "a", "n", "n", "y">> \o LongName,
            GuestName \o LongName}
        GAChallenges == {<<"4", "|", "c">>, <<"3", "|", "c">>, <<"0", "|", "c">>,
                         <<"4", "|", "!">>, <<"c">>}
        GAKeyIds == {-1, 3, 4}
    IN  \E n \in GANames, keyid \in GAKeyIds, ip \in IPs, challenge \in GAChallenges,
           scookie \in {<<>>, Cookie(NameAl, 1, <<SidToks[1]>>)} :
            Arrive(r, MaxGARequests,
                   [act |-> "getassertion", name |-> n, pass |-> <<>>, newpass |-> <<>>],
                   keyid, ip, scookie, challenge)

NextGA ==
    \/ StartGA(1)
    \/ GAUserData(1)
    \/ GALadder(1)
    \/ GALoginTime(1)
    \/ GAUserState(1)

SpecGA == InitGA /\ [][NextGA]_vars

\* login, logout and changepassword requests one after the other, for an
\* account of each kind passwordVerify tells apart: with a password hash, with
\* a federated email (ending in '@'), and with neither
InitAccount ==
    /\ cfg = ConfigDefault
    /\ \E row \in {UserRow(LegacyHash(<<"pw1">>), <<>>, 0, 1, "ip1"),
                    UserRow(LegacyHash(<<"pw1">>), <<"al@gmail.com", "@">>, 0, 1, "ip1"),
                    UserRow(<<>>, <<>>, 0, 1, "ip1")} :
          users = Put(<<>>, al, [row EXCEPT !.logintime = Now0 - LOGINTIME_INTERVAL])
    \* two sessions of al, the first created exactly 14 days ago
    /\ sessions = Put(Put(<<>>, 1, [userid |-> al, sid |-> bcryptHash(<<SidToks[1]>>),
                                     timeout |-> Now0]),
                      2, [userid |-> al, sid |-> bcryptHash(<<SidToks[2]>>),
                          timeout |-> Now0 + SID_DURATION])
    /\ nextSession = 3
    /\ \E c \in {1, THROTTLE_LIMIT + 1} :
          loginthrottle = Put(<<>>, "ip1",
              [count |-> c, time |-> Now0 - THROTTLE_WINDOW, lastuserid |-> bo])
    /\ now = Now0
    /\ req = [r \in Reqs |-> IdleReq]
    /\ nextSid = 2
    /\ started = 0
    /\ ticks = 0
    /\ http = NoHttp
    /\ oauthTokens = <<>>
    /\ tokenLog = <<>>

StartAccount(r) ==
    LET Secrets == Passwords \cup {<<"idtoken-al">>}
        AccountInputs ==
            {[act |-> "login", name |-> n, pass |-> p, newpass |-> <<>>] :
                n \in Names, p \in Secrets}
            \cup {[act |-> "logout", name |-> n, pass |-> <<>>, newpass |-> <<>>] :
                n \in {al, bo, <<>>}}
            \cup {[act |-> "changepassword", name |-> <<>>, pass |-> p, newpass |-> <<"pw2">>] :
                p \in Secrets}
        \* no cookie, or the cookie of one of al's two sessions
        AccountCookies == {<<>>} \cup {Cookie(NameAl, k, <<SidToks[k]>>) : k \in 1..2}
    IN  \E in \in AccountInputs, ip \in IPs, scookie \in AccountCookies :
            Arrive(r, MaxRequests, in, -1, ip, scookie, <<"4", "|", "c">>)

NextAccount ==
    \/ Tick
    \/ StartAccount(1)
    \/ CheckLoggedInExpired(1)
    \/ Logout(1)
    \/ LoginLogout(1)
    \/ LoginGet(1)
    \/ PVThrottle(1)
    \/ PVLockout(1)
    \/ PVUser(1)
    \/ PVFail(1)
    \/ LoginInsert(1)
    \/ GAUserData(1)
    \/ GALadder(1)
    \/ GALoginTime(1)
    \/ CPGet(1)
    \/ CPUpdate(1)
    \/ CPDelete(1)

SpecAccount == InitAccount /\ [][NextAccount]_vars

\* logins for al's account from the two IPs, handled at the same time, while
\* time passes: ip1 has THROTTLE_LIMIT failures on record in a window that
\* ends this second, ip2 has no record
InitThrottle ==
    /\ InitAt(Now0)
    /\ cfg = ConfigDefault
    /\ users[al].banstate = 0
    /\ loginthrottle["ip1"].count = THROTTLE_LIMIT

StartThrottle(r) ==
    /\ req[r].pc = "idle"
    /\ \E p \in Passwords, ip \in IPs :
          Arrive(r, MaxRequests,
                 [act |-> "login", name |-> NameAl, pass |-> p, newpass |-> <<>>],
                 -1, ip, <<>>, <<"4", "|", "c">>)

NextThrottle ==
    \/ Tick
    \/ \E r \in Reqs : StartThrottle(r)
    \/ \E r \in Reqs : LoginGet(r)
    \/ \E r \in Reqs : PVThrottle(r)
    \/ \E r \in Reqs : PVLockout(r)
    \/ \E r \in Reqs : PVUser(r)
    \/ \E r \in Reqs : PVFail(r)
    \/ \E r \in Reqs : LoginInsert(r)
    \/ \E r \in Reqs : GAUserData(r)
    \/ \E r \in Reqs : GALadder(r)
    \/ \E r \in Reqs : GALoginTime(r)

SpecThrottle == InitThrottle /\ [][NextThrottle]_vars

\* registrations one after the other: up to MaxRegistrations requests for
\* names that are free, from either address
MaxRegistrations == 4

StartRegister(r) ==
    \E n \in {NameBo, <<"C", "y">>, <<"D", "i">>, <<"E", "d">>}, ip \in IPs :
        Arrive(r, MaxRegistrations,
               [act |-> "register", name |-> n, pass |-> <<"pw1">>, newpass |-> <<>>],
               -1, ip, <<>>, <<"4", "|", "c">>)

NextRegister ==
    \/ Tick
    \/ StartRegister(1)
    \/ RegGet(1)
    \/ RegCount(1)
    \/ RegInsert(1)
    \/ LoginGet(1)
    \/ PVThrottle(1)
    \/ PVUser(1)
    \/ LoginInsert(1)
    \/ GAUserData(1)
    \/ GALoginTime(1)

SpecRegister == InitThrottle /\ [][NextRegister]_vars

\* ------------------------------------------------------------- properties
\* the context a Start step fills
StartSlot(r) == Free(r) /\ \A q \in Reqs : q < r => ~Free(q)
Resolves(r) == started' = started + 1 /\ StartSlot(r) /\ req'[r].user.loggedIn # <<>>
Done(r) == req[r].pc = "done"

\* C1: a passwordVerify call that reads a throttle count above 500 for its IP
\* returns false without loading the account, whatever userid and secret
C1_Lockout ==
    \A r \in Reqs :
        req[r].pvCount > 500 =>
            /\ ~req[r].pvLoaded
            /\ req[r].pc = "pv_lockout" \/ req[r].pvResult = "false"

C1_Witness ==
    \E r \in Reqs :
        /\ req[r].pvCount > 500 /\ req[r].pvResult = "false"
        /\ toID(req[r].callName) = al
        /\ bcryptCompare(req[r].callPass, sanitizeHash(users[al].passwordhash))

\* C2: getUser yields a logged-in user only if the row of the cookie's session
\* id exists, the cookie's secret matches its hash and toID of the cookie's
\* name is its owner; otherwise the user is not logged in
C2_ResolveOnlyIf ==
    [][\A r \in Reqs :
          Resolves(r) =>
             LET q == req'[r]
             IN  /\ q.cookieSession \in DOMAIN sessions
                 /\ bcryptCompare(q.cookieSid, sessions[q.cookieSession].sid)
                 /\ sessions[q.cookieSession].userid = toID(q.user.name)
                 /\ q.user.loggedIn = sessions[q.cookieSession].userid]_vars

C2_Witness ==
    \E r \in Reqs :
        /\ req[r].user.loggedIn = al /\ req[r].user.name = NameAlDot
        /\ req[r].cookieSession = 1 /\ req[r].pvResult = ""

\* C3 as claimed: a request at a time t >= the row's timeout (t = timeout
\* included) is never resolved to a logged-in user
C3_ValidOnlyBefore ==
    [][\A r \in Reqs :
          Resolves(r) => req'[r].ctime < sessions[req'[r].cookieSession].timeout]_vars

\* C3 as amended: a request at a time t > the row's timeout is never resolved
\* to a logged-in user (at t = timeout the session still resolves)
C3_ValidNotAfter ==
    [][\A r \in Reqs :
          Resolves(r) => ~(req'[r].ctime > sessions[req'[r].cookieSession].timeout)]_vars

C3_Witness ==
    \E r \in Reqs :
        /\ req[r].pc = "cli_expired"
        /\ req[r].ctime > sessions[req[r].cookieSession].timeout

\* C4: once checkLoggedIn has observed an expired session (right secret, right
\* name), the row of that session is gone
C4_LazyGC ==
    [][\A r \in Reqs :
          (req[r].pc = "cli_expired" /\ req'[r].pc # "cli_expired")
             => req[r].cookieSession \notin DOMAIN sessions']_vars

CorrectPassword(r) ==
    LET id == toID(req[r].name)
    IN  /\ id \in DOMAIN users
        /\ VerifyAgainst(Get(users, id), req[r].pass) = "true"

\* the login created exactly one row: owner toID(name), timeout 14 days after
\* the login began, a secret of its own that is not the cookie's; the caller
\* is logged in as toID(name)
LoginCreated(r) ==
    LET q == req[r]
    IN  /\ Cardinality(q.inserted) = 1
        /\ \A k \in q.inserted :
              /\ k \in DOMAIN sessions
              /\ sessions[k].userid = toID(q.name)
              /\ sessions[k].timeout = q.curTime + 14 * 24 * 60 * 60
              /\ bcryptCompare(q.sidhash, sessions[k].sid)
              /\ q.sidhash # q.cookieSid
              /\ \A j \in DOMAIN sessions \ {k} : sessions[j].sid # sessions[k].sid
              /\ q.session = k
        /\ q.user.loggedIn = toID(q.name)

\* C6 as claimed: every login with the correct password of a registered
\* account creates its session
C6_LoginCreates ==
    \A r \in Reqs :
        (Done(r) /\ req[r].act = "login" /\ CorrectPassword(r)) => LoginCreated(r)

\* C6 as amended: ... unless the call read a throttle count above 500 for the
\* caller's IP (then the login fails, see C1)
C6_LoginCreatesUnlessLocked ==
    \A r \in Reqs :
        (Done(r) /\ req[r].act = "login" /\ CorrectPassword(r) /\ req[r].pvCount <= 500)
            => LoginCreated(r)

C6_Witness ==
    \E r \in Reqs :
        /\ Done(r) /\ req[r].act = "login" /\ CorrectPassword(r)
        /\ req[r].pvCount <= 500 /\ req[r].cookieSid # <<>>
        /\ LoginCreated(r)

\* C7: a login whose verification fails ends with the ActionError
\* 'Wrong password.', has created no session and leaves nobody logged in
C7_WrongPassword ==
    \A r \in Reqs :
        (Done(r) /\ req[r].act = "login" /\ req[r].pvResult = "false") =>
            /\ req[r].result.kind = "actionerror"
            /\ req[r].result.text = "Wrong password."
            /\ req[r].inserted = {}
            /\ req[r].user.loggedIn = <<>>
            /\ req[r].session = 0

C7_Witness ==
    \E r \in Reqs :
        /\ Done(r) /\ req[r].act = "login" /\ req[r].pvResult = "false"
        /\ req[r].pvLoaded /\ al \in req[r].auth

\* C8: an assertion for a userid that has an account when it is signed goes
\* only to a request that proved to be that user (by its session or by
\* passing passwordVerify)
C8_NoClaim ==
    \A r \in Reqs :
        (req[r].result.kind = "assertion" /\ req[r].result.registered)
            => req[r].result.userid \in req[r].auth

\* C9: an assertion for a userid without an account has usertype 1, or 5 when
\* the caller's IP is on the force list
C9_MinimalType ==
    \A r \in Reqs :
        (req[r].result.kind = "assertion" /\ ~req[r].result.registered)
            => req[r].result.usertype = IF req[r].ip \in cfg.autolockip THEN "5" ELSE "1"

\* C10: no assertion is signed for a user logged in as the target id whose
\* banstate is >= 100
C10_Gone ==
    \A r \in Reqs :
        ~ /\ req[r].result.kind = "assertion" /\ req[r].result.registered
          /\ req[r].user.loggedIn = req[r].result.userid
          /\ users[req[r].result.userid].banstate >= 100
\* C20: a passwordVerify call that reads a throttle record whose window began
\* more than 24h before the read is not short-circuited by the lockout and
\* goes on to load the account, whatever count the record holds
C20_DecayFirst ==
    \A r \in Reqs :
        (req[r].pvCount >= 0 /\ req[r].pvTime + 24 * 60 * 60 < req[r].pvAt) =>
            /\ req[r].pc # "pv_lockout"
            /\ req[r].pvResult # "" => req[r].pvLoaded
\* two answered logins for the same account, both with its correct password,
\* that were handled at the same time
ConcurrentLogins(r, q) ==
    /\ r # q
    /\ q \in req[r].overlap \/ r \in req[q].overlap
    /\ Done(r) /\ req[r].act = "login" /\ CorrectPassword(r)
    /\ Done(q) /\ req[q].act = "login" /\ CorrectPassword(q)
    /\ toID(req[r].name) = toID(req[q].name)

\* C13 as claimed: two concurrent logins for one account with the correct
\* password both succeed, each with a session row of its own that the other
\* has not deleted
C13_BothLogins ==
    \A r, q \in Reqs :
        ConcurrentLogins(r, q) =>
            /\ LoginCreated(r) /\ LoginCreated(q)
            /\ req[r].inserted \cap req[q].inserted = {}

\* C13 as amended: ... unless a login read a throttle count above 500 for its
\* IP (that login fails, see C1)
C13_BothLoginsUnlessLocked ==
    \A r, q \in Reqs :
        (ConcurrentLogins(r, q) /\ req[r].pvCount <= 500 /\ req[q].pvCount <= 500) =>
            /\ LoginCreated(r) /\ LoginCreated(q)
            /\ req[r].inserted \cap req[q].inserted = {}

\* both logins came with the same cookie, the second arrived while the first
\* was being handled, and both have their rows
C13_Witness ==
    \E r, q \in Reqs :
        /\ ConcurrentLogins(r, q) /\ req[r].pvCount <= 500 /\ req[q].pvCount <= 500
        /\ q \in req[r].overlap
        /\ req[r].cookieSession = 1 /\ req[q].cookieSession = 1
        /\ LoginCreated(r) /\ LoginCreated(q)
        /\ req[r].session < req[q].session
\* getAssertion has returned to request r
GAReturned(r) == Done(r) /\ req[r].result.kind \in {"message", "assertion"}

\* the key id getAssertion is asked to sign with: the number in front of the
\* challenge's delimiter, else the challengekeyid parameter
AskedKeyId(r) ==
    LET c == req[r].challenge
    IN  IF Len(c) >= 3 /\ c[2] \in {";", "%7C", "|"} /\ c[1] \in DigitSet
        THEN DigitVal(c[1]) ELSE req[r].keyid
AskedChallenge(r) ==
    LET c == req[r].challenge
    IN  IF Len(c) >= 3 /\ c[2] \in {";", "%7C", "|"} THEN <<c[3]>> ELSE c

\* C11: when getAssertion has the data to sign and the challenge is not
\* corrupt, a key id on Config.compromisedkeys gets the 'no longer supported'
\* message and no signature, also when it is the active key id
C11_CompromisedKey ==
    \A r \in Reqs :
        (GAReturned(r) /\ AskedKeyId(r) \in cfg.compromisedkeys) =>
            /\ req[r].result.kind = "message"
            /\ (req[r].gaData /\ toID(AskedChallenge(r)) # <<>>) =>
                  req[r].result.text =
                     ";;This server is using a login key which is no longer supported."

C11_Witness ==
    \E r \in Reqs :
        /\ GAReturned(r) /\ req[r].gaData /\ toID(AskedChallenge(r)) # <<>>
        /\ AskedKeyId(r) \in cfg.compromisedkeys
        /\ AskedKeyId(r) = cfg.challengekeyid
        /\ req[r].user.loggedIn = al /\ GATarget(req[r]) = al

\* C12: a userid that starts with 'guest' (but is not 'guest'), is longer than
\* 18 characters or contains a banned term is refused with its ';;' message,
\* unsigned and before any access to the store; 'guest' itself gets ';'
C12_NameRejected ==
    \A r \in Reqs :
        GAReturned(r) =>
            LET userid == GATarget(req[r])
                guest == StartsWith(userid, <<"g", "u", "e", "s", "t">>)
                long == Len(userid) > 18
                banned == \E t \in BannedNameTerms : Contains(userid, t)
                text == req[r].result.text
            IN  /\ userid = <<"g", "u", "e", "s", "t">> => text = ";"
                /\ (guest \/ long \/ banned) =>
                      /\ req[r].result.kind = "message"
                      /\ req[r].gaStore = 0
                      /\ ~req[r].gaData
                /\ (guest /\ Len(userid) > 5) =>
                      text = ";;Your username cannot start with 'guest'."
                /\ (long /\ ~guest) =>
                      text = ";;Your username must be less than 19 characters long."
                /\ (banned /\ ~long /\ ~guest) =>
                      text = ";;Your username contains disallowed text."

\* a logged-in user asks for a banned name, with a good key and challenge
C12_Witness ==
    \E r \in Reqs :
        /\ GAReturned(r) /\ req[r].user.loggedIn = al
        /\ req[r].result.text = ";;Your username contains disallowed text."
        /\ AskedKeyId(r) = cfg.challengekeyid /\ cfg.compromisedkeys = {}
        /\ toID(AskedChallenge(r)) # <<>>

\* C22: a passwordVerify call that is short-circuited by the lockout has, when
\* it returns false, written the count it read plus one and the userid it was
\* called for to the throttle record of its IP
C22_LockoutCounted ==
    \A r \in Reqs :
        (req[r].pvCount > 500 /\ req[r].pvResult = "false") =>
            /\ req[r].ip \in DOMAIN loginthrottle
            /\ loginthrottle[req[r].ip].count = req[r].pvCount + 1
            /\ loginthrottle[req[r].ip].lastuserid = toID(req[r].callName)

C22_Witness ==
    \E r \in Reqs :
        /\ req[r].pvCount = 501 /\ req[r].pvResult = "false" /\ ~req[r].pvLoaded
        /\ loginthrottle[req[r].ip].count = 502
        /\ loginthrottle[req[r].ip].lastuserid = al

\* C23: when passwordVerify has returned true, the throttle record of the
\* caller's IP is what the call read: no record if it read none, else the
\* count and the window start it read (also when the call had reset its own
\* copy because the window was over)
C23_SuccessKeepsThrottle ==
    \A r \in Reqs :
        req[r].pvResult = "true" =>
            IF req[r].pvCount = -1 THEN req[r].ip \notin DOMAIN loginthrottle
            ELSE /\ req[r].ip \in DOMAIN loginthrottle
                 /\ loginthrottle[req[r].ip].count = req[r].pvCount
                 /\ loginthrottle[req[r].ip].time = req[r].pvTime

C23_Witness ==
    \E r \in Reqs :
        /\ req[r].pvResult = "true" /\ req[r].pvCount = THROTTLE_LIMIT
        /\ req[r].pvTime + 24 * 60 * 60 < req[r].pvAt
        /\ loginthrottle[req[r].ip].count = THROTTLE_LIMIT

\* C21: a passwordVerify call that went past the lockout test and returned
\* false has added one to the count of its IP's throttle record: the record
\* holds 1 if the call read none (or read one whose window was over), else
\* the count the call read plus one
C21_FailureCounted ==
    \A r \in Reqs :
        (req[r].pvResult = "false" /\ req[r].pvLoaded) =>
            /\ req[r].ip \in DOMAIN loginthrottle
            /\ loginthrottle[req[r].ip].count =
                  IF req[r].pvCount = -1 \/ req[r].pvTime + 24 * 60 * 60 < req[r].pvAt
                  THEN 1 ELSE req[r].pvCount + 1

\* the call of request r compared the password and found it wrong
Mismatched(r) ==
    /\ req[r].pvLoaded
    /\ VerifyAgainst(Get(users, toID(req[r].callName)), req[r].callPass) = "mismatch"

\* C24: when two answered requests from one IP both read no throttle record
\* and both presented a wrong password, both calls returned false, neither
\* request ended in an exception, and the IP has its record
C24_BothReturnFalse ==
    \A r, q \in Reqs :
        (r # q /\ Done(r) /\ Done(q) /\ req[r].ip = req[q].ip
            /\ req[r].pvCount = -1 /\ req[q].pvCount = -1
            /\ Mismatched(r) /\ Mismatched(q)) =>
            /\ req[r].pvResult = "false" /\ req[q].pvResult = "false"
            /\ req[r].result.kind # "crash" /\ req[q].result.kind # "crash"
            /\ req[r].ip \in DOMAIN loginthrottle

\* the count on record for ip, the failures that were on record when the
\* requests began, and the calls from ip that have returned false since
ThrottleCount(ip) == IF ip \in DOMAIN loginthrottle THEN loginthrottle[ip].count ELSE 0
RecordedBefore(ip) == IF ip = "ip1" THEN THROTTLE_LIMIT ELSE 0
FailedAttempts(ip) ==
    Cardinality({r \in Reqs : req[r].ip = ip /\ req[r].pvResult = "false"})

\* C25: however the calls from one IP interleave, the count on record never
\* exceeds the failures recorded before plus the calls from that IP that have
\* returned false (wrong password, or locked out)
C25_NeverOvercounts ==
    \A ip \in IPs : ThrottleCount(ip) <= RecordedBefore(ip) + FailedAttempts(ip)

\* a lost update: two calls have failed and the record went up by one
C25_Witness ==
    /\ FailedAttempts("ip1") = 2
    /\ \A r \in Reqs : req[r].pvCount = THROTTLE_LIMIT
    /\ ThrottleCount("ip1") = THROTTLE_LIMIT + 1

\* C26: a login request that checkLoggedIn bound to a session has, from the
\* moment its logout step is over (so before users.get and passwordVerify, and
\* whatever the login then does), no row of that session left in the store;
\* until that step is over no credential has been looked at
C26_LoginDropsSession ==
    \A r \in Reqs :
        (req[r].act = "login" /\ req[r].bound # 0) =>
            IF req[r].pc = "login_logout"
            THEN req[r].pvAt = -1 /\ req[r].pvResult = ""
            ELSE req[r].bound \notin DOMAIN sessions

\* a login that came with the cookie of session 2 and failed
C26_Witness ==
    \E r \in Reqs :
        /\ req[r].act = "login" /\ req[r].bound = 2 /\ Done(r)
        /\ req[r].result.text = "Wrong password."
        /\ 2 \notin DOMAIN sessions

\* a login request for a name whose userid has no account
AdoptingLogin(q) == q.act = "login" /\ toID(q.name) \notin DOMAIN users

\* C27: no step of a login for a name without an account changes the throttle
\* table or adds a session, and once its users.get is over the request has
\* called passwordVerify not at all (no throttle read, no comparison), has
\* inserted no session, and has its user logged in under that name
C27_Adoption ==
    [][\A r \in Reqs :
          /\ (AdoptingLogin(req[r]) /\ req[r].pc \notin {"idle", "done"}) =>
                /\ loginthrottle' = loginthrottle
                /\ DOMAIN sessions' \subseteq DOMAIN sessions
          /\ (AdoptingLogin(req'[r])
                /\ req'[r].pc \notin {"cli_expired", "login_logout", "login_get"}) =>
                LET q == req'[r]
                IN  /\ q.pvAt = -1 /\ q.pvCount = -1 /\ ~q.pvLoaded /\ q.pvResult = ""
                    /\ q.inserted = {}
                    /\ q.user.loggedIn = toID(q.name)
                    /\ q.result.kind # "actionerror"]_vars

\* a name adopted from an IP that is locked out
C27_Witness ==
    \E r \in Reqs :
        /\ AdoptingLogin(req[r]) /\ Done(r) /\ req[r].user.loggedIn = bo
        /\ req[r].ip = "ip1" /\ loginthrottle["ip1"].count > THROTTLE_LIMIT
        /\ req[r].result.kind = "assertion"

\* C28: the step of a logout with a bound session removes the row of that
\* session and nothing else from the store, and leaves the request without
\* secret and session id, with a cleared cookie and the user Guest; a session
\* id that is gone never comes back, and a request whose cookie names a
\* session that is gone is Guest; a logout request with no bound session
\* changes nothing in the store
C28_Logout ==
    [][\A r \in Reqs :
          /\ (req[r].pc = "logout" /\ req'[r].pc # "logout") =>
                /\ req[r].bound \in DOMAIN sessions
                /\ sessions' = [k \in DOMAIN sessions \ {req[r].bound} |-> sessions[k]]
                /\ users' = users /\ loginthrottle' = loginthrottle
                /\ req'[r].sidhash = <<>> /\ req'[r].session = 0
                /\ req'[r].user = Guest
                /\ req'[r].setCookie.set /\ req'[r].setCookie.maxAge = 0
          /\ \A k \in 1..(nextSession - 1) :
                k \notin DOMAIN sessions => k \notin DOMAIN sessions'
          /\ (started' = started + 1 /\ req'[r].cookieSession \notin DOMAIN sessions) =>
                req'[r].user = Guest
          /\ (req[r].act = "logout" /\ req[r].bound = 0 /\ req[r].pc # "cli_expired") =>
                /\ sessions' = sessions /\ users' = users
                /\ loginthrottle' = loginthrottle]_vars

\* al has logged out of the first session and is still logged in elsewhere
C28_Witness ==
    \E r \in Reqs :
        /\ req[r].act = "logout" /\ Done(r) /\ req[r].bound = 1
        /\ req[r].result.kind = "actionsuccess" /\ req[r].result.text = "true"
        /\ DOMAIN sessions = {2}
        /\ req[r].user = Guest /\ req[r].setCookie.maxAge = 0

\* C29: a request that arrives with a three-part sid cookie and is not bound
\* to its session by checkLoggedIn (the expired branch, which has its own
\* step, aside) has the Max-Age=0 Set-Cookie header and the user Guest
C29_FailureClearsCookie ==
    [][\A r \in Reqs :
          (started' = started + 1 /\ req'[r] # req[r]
              /\ req'[r].cookieSid # <<>> /\ req'[r].bound = 0
              /\ req'[r].pc # "cli_expired") =>
             /\ req'[r].setCookie.set /\ req'[r].setCookie.maxAge = 0
             /\ req'[r].user = Guest]_vars

\* a changepassword request that has answered {actionsuccess: true}
PasswordChanged(r) ==
    /\ Done(r) /\ req[r].act = "changepassword"
    /\ req[r].result.kind = "actionsuccess" /\ req[r].result.text = "true"

\* C30: when changepassword has succeeded for the logged-in owner, the request
\* has inserted a session of the owner that is in the store, and its response
\* has a Set-Cookie header (not a clearing one) whose value, sent back as the
\* sid cookie, resolves to the owner
C30_FreshSessionCookie ==
    \A r \in Reqs :
        PasswordChanged(r) =>
            /\ \E k \in req[r].inserted :
                  k \in DOMAIN sessions /\ sessions[k].userid = req[r].user.id
            /\ req[r].setCookie.set /\ req[r].setCookie.maxAge > 0
            /\ LET sid == decodeURIComponent(req[r].setCookie.value)
               IN  /\ ~sid.threw
                   /\ checkLoggedIn([IdleReq EXCEPT !.ctime = now], sid.text).user.loggedIn
                         = req[r].user.id

\* C31: an assertion is signed only for a key id asked for (the one in front
\* of the challenge's delimiter, else the parameter) that is >= 1, not on
\* Config.compromisedkeys and equal to Config.challengekeyid, and for a
\* challenge with a non-empty toID; a call that got as far as the challenge
\* without all of these returns one of the ';;' messages, unsigned
C31_SignedKey ==
    \A r \in Reqs :
        GAReturned(r) =>
            LET good == /\ AskedKeyId(r) >= 1
                        /\ AskedKeyId(r) \notin cfg.compromisedkeys
                        /\ AskedKeyId(r) = cfg.challengekeyid
                        /\ toID(AskedChallenge(r)) # <<>>
            IN  /\ req[r].result.kind = "assertion" =>
                      good /\ req[r].result.challenge = AskedChallenge(r)
                /\ (req[r].gaData /\ ~good) =>
                      /\ req[r].result.kind = "message"
                      /\ req[r].result.text \in
                            {";;Corrupt challenge",
                             ";;This server is requesting an invalid login key.",
                             ";;This server is using a login key which is no longer supported.",
                             ";;Unknown key ID"}

\* signed with the key id of the challenge, not the parameter's
C31_Witness ==
    \E r \in Reqs :
        /\ GAReturned(r) /\ req[r].result.kind = "assertion"
        /\ req[r].keyid = 3 /\ AskedKeyId(r) = 4 /\ cfg.compromisedkeys = {3}

\* request r has just been answered by the handler of act
Answered(r, act) ==
    /\ req'[r] # req[r]
    /\ req'[r].pc = "done"
    /\ req'[r].act = act

\* C33: an oauth/api/authorize call that finds the owner's token for the
\* client older than OAUTH_TOKEN_TIME deletes it and, in the same call,
\* inserts a new token for the same owner and client and returns its id.
C33_ExpiredFallsThrough ==
    [][\A r \in Reqs :
          (/\ Answered(r, "oauth/api/authorize")
           /\ \E t \in DOMAIN oauthTokens :
                 /\ t \notin DOMAIN oauthTokens'
                 /\ TokenExpired(oauthTokens[t])) =>
             /\ req'[r].minted \in DOMAIN oauthTokens'
             /\ req'[r].result = MkResult("success", req'[r].minted)
             /\ oauthTokens'[req'[r].minted].owner = req'[r].user.id
             /\ oauthTokens'[req'[r].minted].client = req'[r].client]_vars

\* C35: oauth/api/refreshtoken never accepts a token older than
\* OAUTH_TOKEN_TIME: the call returns {success: false} and inserts no token.
C35_ExpiredNotRefreshed ==
    \A r \in Reqs :
        (/\ OAuthCall(r, {"oauth/api/refreshtoken"})
         /\ req[r].pc = "done"
         /\ req[r].tokenWas[1].expired) =>
            /\ Refused(r)
            /\ req[r].minted = ""

\* C36: the token oauth/api/refreshtoken inserts has the owner and the client
\* of the token it replaces, whatever client_id the request carries.
C36_SameOwnerAndClient ==
    [][\A r \in Reqs :
          (/\ Answered(r, "oauth/api/refreshtoken")
           /\ req'[r].minted # "") =>
             /\ req'[r].token \in DOMAIN oauthTokens
             /\ req'[r].minted \in DOMAIN oauthTokens'
             /\ oauthTokens'[req'[r].minted].owner = oauthTokens[req'[r].token].owner
             /\ oauthTokens'[req'[r].minted].client = oauthTokens[req'[r].token].client]_vars


\* request r is an oauth/api/getassertion call with a valid client_id whose
\* token was in the table on arrival; expired tells how old the token was
TokenAssertion(r, expired) ==
    /\ OAuthCall(r, {"oauth/api/getassertion"})
    /\ req[r].tokenWas[1].state = "live"
    /\ req[r].tokenWas[1].expired = expired

\* the call has returned data signed for the token's owner, asked for with
\* the active key id
SignedForOwner(r) ==
    /\ req[r].token \in DOMAIN oauthTokens
    /\ req[r].keyid = cfg.challengekeyid
    /\ req[r].result.kind = "assertion"
    /\ req[r].result.userid = oauthTokens[req[r].token].owner

\* an expired token is refused and its row deleted
ExpiredRefused(r) ==
    TokenAssertion(r, TRUE) => Refused(r) /\ req[r].token \notin DOMAIN oauthTokens

\* C37 as stated: oauth/api/getassertion refuses a token older than
\* OAUTH_TOKEN_TIME with {success: false} and deletes its row; for a live
\* token it returns an assertion signed for the token's owner.
C37_TokenAssertion ==
    \A r \in Reqs :
        /\ ExpiredRefused(r)
        /\ (TokenAssertion(r, FALSE) /\ Done(r)) => SignedForOwner(r)

\* C37: oauth/api/getassertion refuses a token older than OAUTH_TOKEN_TIME with
\* {success: false} and deletes its row; for a live token it returns what
\* getAssertion returns for the token's owner and the active key id: data
\* signed for the owner or, when the owner's account is disabled, the
\* ';;' message that says so. It never signs for anyone else.
C37_TokenAssertionOrRefusal ==
    \A r \in Reqs :
        /\ ExpiredRefused(r)
        /\ (TokenAssertion(r, FALSE) /\ Done(r)) =>
              \/ SignedForOwner(r)
              \/ /\ req[r].token \in DOMAIN oauthTokens
                 /\ users[oauthTokens[req[r].token].owner].banstate >= BANSTATE_GONE
                 /\ req[r].result = GAMessage(";;Your username is no longer available.")
        /\ (OAuthCall(r, {"oauth/api/getassertion"}) /\ req[r].result.kind = "assertion") =>
              TokenAssertion(r, FALSE) /\ SignedForOwner(r)

\* a token that authorize had made a second ago got an assertion for its owner
C37_Witness ==
    \E r \in Reqs :
        /\ TokenAssertion(r, FALSE)
        /\ Done(r)
        /\ SignedForOwner(r)
        /\ oauthTokens[req[r].token].time < req[r].ctime * 1000


\* the token rows of table that are not of owner for client
OtherRows(table, owner, client) ==
    {table[t] : t \in {u \in DOMAIN table :
                          table[u].owner # owner \/ table[u].client # client}}

\* C38: when oauth/api/revoke succeeds for a logged-in owner and the client
\* registered with the URL, no token row of that owner for that client is left,
\* and the rows of every other owner and of every other client are as before.
C38_Revoke ==
    [][\A r \in Reqs :
          (/\ Answered(r, "oauth/api/revoke")
           /\ req'[r].result = MkResult("success", "true")) =>
             LET owner == req'[r].user.id
                 client == IF req'[r].uri = "https://one.example" THEN "app1" ELSE "app2"
             IN  /\ owner # toID(GuestName)
                 /\ req'[r].uri \in {"https://one.example", "https://two.example"}
                 /\ \A t \in DOMAIN oauthTokens' :
                       oauthTokens'[t].owner # owner \/ oauthTokens'[t].client # client
                 /\ OtherRows(oauthTokens', owner, client)
                       = OtherRows(oauthTokens, owner, client)]_vars

\* a revoke took the owner's tokens of the client away and left another
\* owner's token of the same client
C38_Witness ==
    \E r \in Reqs :
        /\ Done(r)
        /\ req[r].act = "oauth/api/revoke"
        /\ req[r].result = MkResult("success", "true")
        /\ \E t \in DOMAIN tokenLog : tokenLog[t].state = "revoked"
        /\ \E t \in DOMAIN oauthTokens :
              /\ oauthTokens[t].owner # req[r].user.id
              /\ OAuthClientByUrl(req[r].uri) = <<oauthTokens[t].client>>


\* no two rows of table have the same owner and the same client
OnePerPair(table) ==
    \A t, u \in DOMAIN table :
        (table[t].owner = table[u].owner /\ table[t].client = table[u].client) => t = u

\* C32: the OAuth requests keep oauth_tokens at one row at most for each
\* (owner, client): no request makes a second row for a pair.
C32_OnePerPair == [][OnePerPair(oauthTokens) => OnePerPair(oauthTokens')]_vars


\* the token can be presented with success: its row is there and not expired
Usable(t) == t \in DOMAIN oauthTokens /\ ~TokenExpired(oauthTokens[t])

\* C34: oauth/api/refreshtoken replaces a token in one step: at no time are
\* a token and its replacement both usable, and of the refreshtoken requests
\* that present the same token one at most gets a replacement.
C34_AtomicRefresh ==
    /\ \A t \in DOMAIN oauthTokens :
          (Usable(t) /\ tokenLog[t].replaces # "") => ~Usable(tokenLog[t].replaces)
    /\ \A r, q \in Reqs :
          (/\ r # q
           /\ req[r].act = "oauth/api/refreshtoken"
           /\ req[q].act = "oauth/api/refreshtoken"
           /\ req[r].token = req[q].token
           /\ req[r].minted # "") => req[q].minted = ""


\* the request made no call of verifyCrossDomainRequest before its setPrefix('')
\* (actions.login), and every call since returned '' and set no CORS header
LoginPrefix(h) ==
    (h.preset /\ h.presetAt = 0 /\ h.prefix = <<"">>) =>
        /\ \A i \in 1..Len(h.prefixReturned) : h.prefixReturned[i] = ""
        /\ h.allowCORSCalls = 0
        /\ h.allowOrigin = <<>>
        /\ h.allowCredentials = <<>>

\* C39: a call of verifyCrossDomainRequest made after setPrefix has stored a
\* prefix returns the stored prefix, leaves it stored and sets no CORS header,
\* whatever the Origin header and Config.cors are; so a request that starts
\* with setPrefix(''), as actions.login does, gets '' for the challenge prefix
\* and no CORS header from this call.
C39_PinnedPrefix ==
    [][/\ (http.preset /\ Len(http'.prefixReturned) = Len(http.prefixReturned) + 1) =>
             /\ http'.prefixReturned = Append(http.prefixReturned, http.prefix[1])
             /\ http'.prefix = http.prefix
             /\ http'.allowCORSCalls = http.allowCORSCalls
             /\ http'.allowOrigin = http.allowOrigin
             /\ http'.allowCredentials = http.allowCredentials
       /\ LoginPrefix(http')]_vars

\* setPrefix('') first, then a call under an Origin header that a rule with a
\* non-empty host matches: '' was returned and no CORS header set
C39_Witness ==
    /\ http.preset
    /\ http.presetAt = 0
    /\ http.prefix = <<"">>
    /\ Len(http.prefixReturned) >= 1
    /\ \E k \in MatchingRules : cfg.cors[k].host # ""
    /\ http.prefixReturned[1] = ""
    /\ http.allowOrigin = <<>>


\* the accounts registered from ip in the last REGISTER_PERIOD seconds
RecentlyRegistered(ip) ==
    {u \in DOMAIN users : users[u].ip = ip /\ users[u].registertime > now - REGISTER_PERIOD}

\* C40: at no time have more than 2 accounts been registered from one IP
\* address within REGISTER_PERIOD, and a register request that finds 2 such
\* accounts is refused and adds no account.
C40_TwoPerPeriod ==
    /\ \A ip \in IPs : Cardinality(RecentlyRegistered(ip)) <= 2
    /\ \A r \in Reqs :
          (/\ req[r].act = "register"
           /\ req[r].pc = "reg_insert") => Cardinality(RecentlyRegistered(req[r].ip)) < 2

====
